---- MODULE Spec2Model ----
(***************************************************************************)
(* A model of ledgereth's device command protocol: the APDU frame codec    *)
(* (objects.py, ISO7816Command), the command table and the send helpers    *)
(* (comms.py, LedgerCommands, dongle_send, dongle_send_data), the firmware *)
(* check and the transport cache (comms.py, init_dongle), and the chunked  *)
(* signing transfer that drives dongle_send_data.                          *)
(*                                                                         *)
(* Bytes are integers 0..255 and a bytes object is a sequence of them.     *)
(* A Python Optional is None (the empty tuple) or Some(x) (the 1-tuple).   *)
(***************************************************************************)
EXTENDS Integers, Sequences, FiniteSets, TLC

None == <<>>
Some(x) == <<x>>
IsNone(o) == o = <<>>
Val(o) == o[1]

\* An exception object: its type, its message or kind, and the status word of
\* the CommException it is or was translated from (0 when there is none).
Exception(type, kind, sw) == [type |-> type, kind |-> kind, sw |-> sw]

\* int.to_bytes(1, "big"): one byte; Python raises OverflowError above 255
\* (to_bytes_overflows), so the value is only defined below.
to_bytes_overflows(n) == n \notin 0..255
to_bytes(n) == <<n>>

(***************************************************************************)
(* constants.py                                                            *)
(***************************************************************************)
DATA_CHUNK_SIZE == 255

\* b"\x80\x00\x00,\x80\x00\x00<\x80\x00\x00\x00\x00\x00\x00\x00\x00\x00\x00\x00"
DEFAULT_PATH_ENCODED ==
    <<128, 0, 0, 44, 128, 0, 0, 60, 128, 0, 0, 0, 0, 0, 0, 0, 0, 0, 0, 0>>

(***************************************************************************)
(* objects.py: ISO7816Command                                              *)
(***************************************************************************)

\* Python truthiness of an Optional[bytes]: None and b"" are falsy.
Truthy(o) == ~IsNone(o) /\ Val(o) # <<>>

\* __init__: self.Lc = Lc or b"\x00" if not data else len(data).to_bytes(1, "big"),
\* which parses as (Lc or b"\x00") if not data else len(data).to_bytes(1, "big").
\* The constructor raises OverflowError when len(data) > 255.
ISO7816Command_raises(Lc, data) ==
    Truthy(data) /\ to_bytes_overflows(Len(Val(data)))

ISO7816Command_init_Lc(Lc, data) ==
    IF ~Truthy(data)
    THEN (IF Truthy(Lc) THEN Lc ELSE Some(<<0>>))
    ELSE Some(to_bytes(Len(Val(data))))

ISO7816Command(CLA, INS, P1, P2, Lc, Le, data) ==
    [CLA |-> CLA, INS |-> INS, P1 |-> P1, P2 |-> P2,
     Lc |-> ISO7816Command_init_Lc(Lc, data), Le |-> Le, data |-> data]

set_data_off_by_one(cmd, data, Lc) ==
    LET c1 == [cmd EXCEPT !.data = Some(data)]
    IN  IF Len(data) >= 255 THEN c1
        ELSE IF IsNone(Lc) THEN [c1 EXCEPT !.Lc = Some(to_bytes(Len(data)))]
        ELSE [c1 EXCEPT !.Lc = Lc]

\* set_data(data, Lc=None): longer data is stored and Lc is left as it was.
set_data(cmd, data, Lc) ==
    LET c1 == [cmd EXCEPT !.data = Some(data)]
    IN  IF Len(data) > 255 THEN c1
        ELSE IF IsNone(Lc) THEN [c1 EXCEPT !.Lc = Some(to_bytes(Len(data)))]
        ELSE [c1 EXCEPT !.Lc = Lc]

\* encode() fills self.Lc when it is None and data is present.
encode_fill(cmd) ==
    IF ~IsNone(cmd.data) /\ IsNone(cmd.Lc)
    THEN [cmd EXCEPT !.Lc = Some(to_bytes(Len(Val(cmd.data))))]
    ELSE cmd

encode(cmd) ==
    LET c == encode_fill(cmd)
        head == c.CLA \o c.INS \o c.P1 \o c.P2
        body == IF ~IsNone(c.data) THEN Val(c.Lc) \o Val(c.data) ELSE Val(c.Lc)
    IN  head \o body \o (IF ~IsNone(c.Le) THEN Val(c.Le) ELSE <<>>)

(***************************************************************************)
(* comms.py: LedgerCommands                                                *)
(***************************************************************************)
GET_CONFIGURATION ==
    ISO7816Command(<<224>>, <<6>>, <<0>>, <<0>>, Some(<<0>>), Some(<<4>>), None)

GET_DEFAULT_ADDRESS_NO_CONFIRM ==
    ISO7816Command(<<224>>, <<2>>, <<0>>, <<0>>,
                   Some(to_bytes(Len(DEFAULT_PATH_ENCODED))), None,
                   Some(to_bytes(Len(DEFAULT_PATH_ENCODED) \div 4) \o DEFAULT_PATH_ENCODED))

GET_ADDRESS_NO_CONFIRM ==
    ISO7816Command(<<224>>, <<2>>, <<0>>, <<0>>, None, None, None)

SIGN_TX_FIRST_DATA ==
    ISO7816Command(<<224>>, <<4>>, <<0>>, <<0>>, None, None, None)

SIGN_TX_SECONDARY_DATA_first ==
    ISO7816Command(<<224>>, <<4>>, <<0>>, <<0>>, None, None, None)

SIGN_TX_SECONDARY_DATA ==
    ISO7816Command(<<224>>, <<4>>, <<128>>, <<0>>, None, None, None)

SIGN_MESSAGE_FIRST_DATA ==
    ISO7816Command(<<224>>, <<8>>, <<0>>, <<0>>, None, None, None)

SIGN_MESSAGE_SECONDARY_DATA ==
    ISO7816Command(<<224>>, <<8>>, <<128>>, <<0>>, None, None, None)

SIGN_TYPED_FIRST_DATA ==
    ISO7816Command(<<224>>, <<12>>, <<0>>, <<0>>, None, None, None)

\* The class attributes that are command specs, as the module leaves them
\* after import.
LedgerCommands ==
    [GET_CONFIGURATION |-> GET_CONFIGURATION,
     GET_DEFAULT_ADDRESS_NO_CONFIRM |-> GET_DEFAULT_ADDRESS_NO_CONFIRM,
     GET_ADDRESS_NO_CONFIRM |-> GET_ADDRESS_NO_CONFIRM,
     SIGN_TX_FIRST_DATA |-> SIGN_TX_FIRST_DATA,
     SIGN_TX_SECONDARY_DATA |-> SIGN_TX_SECONDARY_DATA,
     SIGN_MESSAGE_FIRST_DATA |-> SIGN_MESSAGE_FIRST_DATA,
     SIGN_MESSAGE_SECONDARY_DATA |-> SIGN_MESSAGE_SECONDARY_DATA,
     SIGN_TYPED_FIRST_DATA |-> SIGN_TYPED_FIRST_DATA]

CommandNames == DOMAIN LedgerCommands

\* The other attributes of the class that a caller can name: its two static
\* methods and its docstring.
OtherAttributes == {"get", "get_with_data", "__doc__"}

\* The class docstring, a str: str.encode() gives its UTF-8 bytes.  It begins
\* "APDU commands"; the first four bytes stand for the whole text here.
LedgerCommands_doc_encoded == <<65, 80, 68, 85>>

\* hasattr(LedgerCommands, name)
hasattr(name) == name \in CommandNames \cup OtherAttributes

ValueError == Exception("ValueError", "Command not available", 0)

\* What Python raises when the attribute found has no encode / set_data.
AttributeError == Exception("AttributeError", "object has no attribute", 0)

\* LedgerCommands.get(name): [raised, frame, cmds]; cmds is the command table
\* after the call (the command objects are shared, mutable class attributes).
get(cmds, name) ==
    IF ~hasattr(name)
    THEN [raised |-> Some(ValueError), frame |-> <<>>, cmds |-> cmds]
    ELSE IF name \in CommandNames
    THEN [raised |-> None, frame |-> encode(cmds[name]),
          cmds |-> [cmds EXCEPT ![name] = encode_fill(cmds[name])]]
    ELSE IF name = "__doc__"
    THEN [raised |-> None, frame |-> LedgerCommands_doc_encoded, cmds |-> cmds]
    ELSE [raised |-> Some(AttributeError), frame |-> <<>>, cmds |-> cmds]

get_with_data(cmds, name, data, Lc, Le) ==
    IF ~hasattr(name)
    THEN [raised |-> Some(ValueError), frame |-> <<>>, cmds |-> cmds]
    ELSE IF name \in CommandNames
    THEN LET c1 == set_data(cmds[name], data, None)
             c2 == IF ~IsNone(Lc) THEN [c1 EXCEPT !.Lc = Lc] ELSE c1
             c3 == IF ~IsNone(Le) THEN [c2 EXCEPT !.Le = Le] ELSE c2
         IN  [raised |-> None, frame |-> encode(c3),
              cmds |-> [cmds EXCEPT ![name] = encode_fill(c3)]]
    ELSE [raised |-> Some(AttributeError), frame |-> <<>>, cmds |-> cmds]

(***************************************************************************)
(* The transport (ledgerblue): exchange(frame) answers with bytes or       *)
(* raises CommException with a status word.                                *)
(***************************************************************************)
CommException(sw) == Exception("CommException", "", sw)

\* The outcome of one exchange or of one getDongle: a value or an exception.
Returned(v) == [ok |-> TRUE, value |-> v, err |-> CommException(0)]
Raised(sw) == [ok |-> FALSE, value |-> <<>>, err |-> CommException(sw)]

\* exceptions.py (not among the sources): LedgerError.transalate_comm_exception
\* maps the transport's exception to a domain error that keeps the status word.
DomainKind(sw) == IF sw = 0 THEN "DeviceUnavailable" ELSE "DeviceRejected"
transalate_comm_exception(err) == Exception("LedgerError", DomainKind(err.sw), err.sw)

\* dongle_send(dongle, command_string) with the transport's outcome ex:
\* [raised, value, sent, cmds]; sent lists the exchanges made, in order.
dongle_send_retry(cmds, dongle, command_string, ex) ==
    LET g == get(cmds, command_string)
        x == [dongle |-> dongle, frame |-> g.frame]
    IN  IF ~IsNone(g.raised)
        THEN [raised |-> g.raised, value |-> <<>>, sent |-> <<>>, cmds |-> g.cmds]
        ELSE IF ex.ok
        THEN [raised |-> None, value |-> ex.value, sent |-> <<x>>, cmds |-> g.cmds]
        ELSE [raised |-> Some(transalate_comm_exception(ex.err)), value |-> <<>>,
              sent |-> <<x, x>>, cmds |-> g.cmds]

dongle_send(cmds, dongle, command_string, ex) ==
    LET g == get(cmds, command_string)
        x == [dongle |-> dongle, frame |-> g.frame]
    IN  IF ~IsNone(g.raised)
        THEN [raised |-> g.raised, value |-> <<>>, sent |-> <<>>, cmds |-> g.cmds]
        ELSE IF ex.ok
        THEN [raised |-> None, value |-> ex.value, sent |-> <<x>>, cmds |-> g.cmds]
        ELSE [raised |-> Some(transalate_comm_exception(ex.err)), value |-> <<>>,
              sent |-> <<x>>, cmds |-> g.cmds]

dongle_send_data_swallow(cmds, dongle, command_string, data, Lc, Le, ex) ==
    LET g == get_with_data(cmds, command_string, data, Lc, Le)
        x == [dongle |-> dongle, frame |-> g.frame]
    IN  IF ~IsNone(g.raised)
        THEN [raised |-> g.raised, value |-> <<>>, sent |-> <<>>, cmds |-> g.cmds]
        ELSE [raised |-> None, value |-> ex.value, sent |-> <<x>>, cmds |-> g.cmds]

dongle_send_data(cmds, dongle, command_string, data, Lc, Le, ex) ==
    LET g == get_with_data(cmds, command_string, data, Lc, Le)
        x == [dongle |-> dongle, frame |-> g.frame]
    IN  IF ~IsNone(g.raised)
        THEN [raised |-> g.raised, value |-> <<>>, sent |-> <<>>, cmds |-> g.cmds]
        ELSE IF ex.ok
        THEN [raised |-> None, value |-> ex.value, sent |-> <<x>>, cmds |-> g.cmds]
        ELSE [raised |-> Some(transalate_comm_exception(ex.err)), value |-> <<>>,
              sent |-> <<x>>, cmds |-> g.cmds]

(***************************************************************************)
(* comms.py: the firmware version check                                    *)
(***************************************************************************)
DigitChar == <<"0", "1", "2", "3", "4", "5", "6", "7", "8", "9">>

\* "{}".format(n) for an int n >= 0: its decimal digits.
RECURSIVE format_int(_)
format_int(n) ==
    IF n < 10 THEN <<DigitChar[n + 1]>>
    ELSE format_int(n \div 10) \o <<DigitChar[(n % 10) + 1]>>

\* "{}.{}.{}".format(confbytes[1], confbytes[2], confbytes[3])
decode_response_version_from_config(confbytes) ==
    format_int(confbytes[2]) \o <<".">> \o format_int(confbytes[3])
        \o <<".">> \o format_int(confbytes[4])

\* str.split("."): the parts between the dots.
RECURSIVE split_from(_, _, _)
split_from(str, i, part) ==
    IF i > Len(str) THEN <<part>>
    ELSE IF str[i] = "." THEN <<part>> \o split_from(str, i + 1, <<>>)
    ELSE split_from(str, i + 1, Append(part, str[i]))

split(str) == split_from(str, 1, <<>>)

DigitValue(c) == CHOOSE d \in 0..9 : DigitChar[d + 1] = c

\* int(s) for a string of decimal digits.
RECURSIVE int(_)
int(str) ==
    IF Len(str) = 0 THEN 0
    ELSE 10 * int(SubSeq(str, 1, Len(str) - 1)) + DigitValue(str[Len(str)])

is_usable_version_minor_only(confbytes) ==
    LET v_parts == split(decode_response_version_from_config(confbytes))
        ver == [i \in 1..Len(v_parts) |-> int(v_parts[i])]
    IN  ver[1] = 9 \/ ~(ver[1] # 1 \/ ver[2] < 2)

\* ver[0] == 9 or not any([ver[0] != 1, ver[1] < 2, ver[2] < 4])
is_usable_version(confbytes) ==
    LET v_parts == split(decode_response_version_from_config(confbytes))
        ver == [i \in 1..Len(v_parts) |-> int(v_parts[i])]
    IN  ver[1] = 9 \/ ~(ver[1] # 1 \/ ver[2] < 2 \/ ver[3] < 4)

NotImplementedError == Exception("NotImplementedError", "Unsupported firmware version", 0)

(***************************************************************************)
(* State                                                                   *)
(***************************************************************************)
VARIABLES
    cmds,                 \* LedgerCommands' command objects (class attributes)
    DONGLE_CACHE,         \* comms.DONGLE_CACHE: None or Some(handle)
    DONGLE_CONFIG_CACHE,  \* comms.DONGLE_CONFIG_CACHE: None or Some(bytes)
    firmware,             \* each transport's answer to GET_CONFIGURATION
    handles,              \* the transport handles that exist so far
    configSource,         \* history: the transport DONGLE_CONFIG_CACHE came from
    okProbes,             \* history: answered GET_CONFIGURATION exchanges per transport
    stats,                \* history: counters over the init_dongle calls
    calls,                \* number of init_dongle calls made
    last,                 \* history: the last init_dongle call, its inputs and outcome
    version,              \* a configuration response and is_usable_version's answer
    lcFromCaller,         \* history: per command, whether its Lc is a caller's Lc argument
    lastOp,               \* history: the last codec or send call, its inputs and outcome
    xfer,                 \* the chunked transfer in progress
    wire,                 \* history: the exchanges of the transfer, in order
    tx,                   \* history: the last transaction call, its inputs and outcome
    sig,                  \* history: the last Signed.signature access
    addr,                 \* history: the last decode_response_address call
    mw                    \* the middleware's call in progress and what it has called

sessionVars == <<DONGLE_CACHE, DONGLE_CONFIG_CACHE, firmware, handles,
                 configSource, okProbes, stats, calls, last>>
frameVars == <<lcFromCaller, lastOp>>
chunkVars == <<xfer, wire>>
objectVars == <<tx, sig, addr, mw>>

vars == <<cmds, sessionVars, version, frameVars, chunkVars, objectVars>>

\* Whether a name a caller passes is one of the command specs.
IsCommand(name) == name \in CommandNames

\* The parts of the state a specification leaves alone start here.
VersionIdle == version = [confbytes |-> <<0, 0, 0, 0>>, checked |-> FALSE, usable |-> FALSE]

NoOp ==
    [op |-> "none", name |-> "", data |-> None, Lc |-> None, Le |-> None,
     raised |-> None, frame |-> <<>>, value |-> <<>>, sent |-> <<>>,
     cmd |-> None, fromCaller |-> FALSE, dongle |-> 0, ex |-> Returned(<<>>)]

\* __init__ takes self.Lc from its Lc argument only when data is falsy and Lc is not.
Lc_from_caller_init(Lc, data) == ~Truthy(data) /\ Truthy(Lc)

FrameStart ==
    /\ lcFromCaller = [n \in CommandNames |-> n = "GET_CONFIGURATION"]
    /\ lastOp = NoOp

NoTransfer ==
    [state |-> "Idle", kind |-> "", dongle |-> 0, payload |-> <<>>, sent |-> 0,
     retval |-> None, result |-> None, error |-> None]

ChunkIdle ==
    /\ xfer = NoTransfer
    /\ wire = <<>>

NoTx ==
    [op |-> "none", cls |-> "", args |-> <<>>, raised |-> None, obj |-> None,
     hex |-> <<>>, rawtx |-> <<>>, src |-> None, rpc |-> <<>>]
NoSig ==
    [op |-> "none", cls |-> "", v |-> None, r |-> None, s |-> None,
     raised |-> None, hex |-> <<>>]
NoAddr ==
    [op |-> "none", response |-> <<>>, raised |-> None, taken |-> <<>>, value |-> <<>>]

TxIdle == tx = NoTx
SigIdle == sig = NoSig
AddrIdle == addr = NoAddr

\* The middleware before a request: nothing called, nothing raised.
NoRequest ==
    [pc |-> "idle", method |-> "", params |-> <<>>, i |-> 0, account |-> None,
     nonce |-> None, chain_id |-> 0, new_params |-> <<>>, raised |-> None,
     log |-> <<>>]
MwIdle == mw = NoRequest


(***************************************************************************)
(* comms.py: init_dongle                                                   *)
(***************************************************************************)
NumTransports == 2
MaxCalls == 3

Transports == 1..NumTransports

\* Configuration responses: a flags byte, then major, minor, patch; one that
\* is_usable_version accepts and one that it rejects.
Firmwares == {<<1, 1, 2, 4>>, <<1, 1, 2, 3>>}

\* Status words of a CommException: 0x6985 (denied by the user on the device)
\* and 0 for a transport that stopped responding.
Faults == {0, 27013}

\* if dong is None: if DONGLE_CACHE is None: DONGLE_CACHE = getDongle(debug)
needs_open_always(dongle, cache) == IsNone(dongle)
needs_open(dongle, cache) == IsNone(dongle) /\ IsNone(cache)

\* if DONGLE_CONFIG_CACHE is None or dongle is not None
needs_probe_always(config, dongle) == TRUE
needs_probe(config, dongle) == IsNone(config) \/ ~IsNone(dongle)

\* if not is_usable_version(DONGLE_CONFIG_CACHE): raise ...; return dong
version_gate_open(config, dong) == [raised |-> None, handle |-> dong]
version_gate(config, dong) ==
    IF ~is_usable_version(Val(config))
    THEN [raised |-> Some(NotImplementedError), handle |-> None]
    ELSE [raised |-> None, handle |-> dong]

\* One call init_dongle(dongle): opn is what getDongle does if it is called,
\* fault is None or the status word of the CommException the exchange raises.
\* The result holds the globals after the call and what the call did.
init_dongle(c, cache, config, source, fw, dongle, opn, fault) ==
    LET open == needs_open(dongle, cache)
        cache1 == IF open /\ opn.ok THEN Some(opn.value) ELSE cache
        dong == IF IsNone(dongle) THEN cache1 ELSE dongle
        base == [cache |-> cache1, config |-> config, source |-> source,
                 opened |-> open, dong |-> dong, sent |-> <<>>, gated |-> FALSE,
                 raised |-> None, handle |-> None]
    IN  IF open /\ ~opn.ok
        THEN [base EXCEPT !.raised = Some(transalate_comm_exception(opn.err))]
        ELSE LET probe == needs_probe(config, dongle)
                 ex == IF IsNone(fault) THEN Returned(fw[Val(dong)])
                       ELSE Raised(Val(fault))
                 r == dongle_send(c, Val(dong), "GET_CONFIGURATION", ex)
             IN  IF probe /\ ~IsNone(r.raised)
                 THEN [base EXCEPT !.raised = r.raised, !.sent = r.sent]
                 ELSE LET config1 == IF probe THEN Some(r.value) ELSE config
                          g == version_gate(config1, dong)
                      IN  [base EXCEPT !.config = config1,
                                       !.source = IF probe THEN dong ELSE source,
                                       !.sent = IF probe THEN r.sent ELSE <<>>,
                                       !.gated = TRUE,
                                       !.raised = g.raised,
                                       !.handle = g.handle]

NoCall ==
    [called |-> FALSE, dongle |-> None, cacheBefore |-> None, configBefore |-> None,
     sourceBefore |-> None,
     opened |-> FALSE, dong |-> None, sent |-> <<>>, gated |-> FALSE,
     raised |-> None, handle |-> None]

SessionStart ==
    /\ DONGLE_CACHE = None
    /\ DONGLE_CONFIG_CACHE = None
    /\ handles = {}
    /\ configSource = None
    /\ okProbes = [t \in Transports |-> 0]
    /\ stats = [implicitProbes |-> 0, opens |-> 0]
    /\ calls = 0
    /\ last = NoCall

\* getDongle returns a new handle or raises CommException.
getDongle == {Returned(h) : h \in Transports \ handles} \cup {Raised(sw) : sw \in Faults}

CallInitDongle(dongle, opn, fault) ==
    \E r \in {init_dongle(cmds, DONGLE_CACHE, DONGLE_CONFIG_CACHE, configSource,
                          firmware, dongle, opn, fault)} :
    LET answered == Len(r.sent) > 0 /\ (r.gated \/ IsNone(r.raised))
    IN  /\ calls < MaxCalls
        /\ calls' = calls + 1
        /\ DONGLE_CACHE' = r.cache
        /\ DONGLE_CONFIG_CACHE' = r.config
        /\ configSource' = r.source
        /\ handles' = handles \cup {Val(h) : h \in {dongle, r.cache} \ {None}}
        /\ okProbes' = IF answered
                       THEN [okProbes EXCEPT ![Val(r.dong)] = @ + Len(r.sent)]
                       ELSE okProbes
        /\ stats' = [implicitProbes |-> stats.implicitProbes
                        + (IF answered /\ IsNone(dongle) THEN Len(r.sent) ELSE 0),
                     opens |-> stats.opens + (IF r.opened /\ ~IsNone(r.cache) THEN 1 ELSE 0)]
        /\ last' = [called |-> TRUE, dongle |-> dongle, cacheBefore |-> DONGLE_CACHE,
                    configBefore |-> DONGLE_CONFIG_CACHE, sourceBefore |-> configSource,
                    opened |-> r.opened,
                    dong |-> r.dong, sent |-> r.sent, gated |-> r.gated,
                    raised |-> r.raised, handle |-> r.handle]
        /\ UNCHANGED <<cmds, firmware, version, frameVars, chunkVars, objectVars>>

NextSession ==
    \E dongle \in {None} \cup {Some(t) : t \in Transports} :
        \E opn \in getDongle :
            \E fault \in {None} \cup {Some(sw) : sw \in Faults} :
                CallInitDongle(dongle, opn, fault)

SessionIdle ==
    /\ SessionStart
    /\ firmware = [t \in Transports |-> <<1, 1, 2, 4>>]

InitSession ==
    /\ cmds = LedgerCommands
    /\ SessionStart
    /\ firmware \in [Transports -> Firmwares]
    /\ VersionIdle
    /\ FrameStart
    /\ ChunkIdle
    /\ TxIdle /\ SigIdle /\ AddrIdle /\ MwIdle

SpecSession == InitSession /\ [][NextSession]_vars

(***************************************************************************)
(* Claims about init_dongle (SpecSession)                                  *)
(***************************************************************************)

\* C1: the configuration probe that init_dongle consults to accept or reject
\* transport T was obtained by an exchange on T itself, never one cached from
\* another transport.
C1_ProbeFromGatedTransport ==
    (last.called /\ last.gated) => configSource = last.dong

\* C2 as claimed: over calls that use the same transport, cached or supplied
\* explicitly, GET_CONFIGURATION is exchanged on that transport at most once.
C2_AtMostOnePerTransport ==
    \A t \in Transports : okProbes[t] <= 1

\* C2 as amended: calls without an explicit transport exchange
\* GET_CONFIGURATION only while no probe response is cached, so at most one
\* such exchange is ever answered; a call with an explicit transport exchanges
\* it exactly once, each time.
C2_ProbeCachedForImplicitCalls ==
    /\ stats.implicitProbes <= 1
    /\ (last.called /\ IsNone(last.dongle) /\ ~IsNone(last.configBefore))
           => Len(last.sent) = 0
    /\ (last.called /\ IsNone(last.dongle) /\ IsNone(last.configBefore))
           => Len(last.sent) = (IF IsNone(last.dong) THEN 0 ELSE 1)
    /\ (last.called /\ ~IsNone(last.dongle)) => Len(last.sent) = 1
    /\ \A i \in 1..Len(last.sent) :
           /\ last.sent[i].dongle = Val(last.dong)
           /\ last.sent[i].frame = <<224, 6, 0, 0, 0, 4>>

C2_Witness ==
    /\ last.called /\ IsNone(last.dongle) /\ ~IsNone(last.configBefore)
    /\ last.gated /\ stats.implicitProbes = 1 /\ calls >= 2
    /\ okProbes[Val(last.dong)] = 1

\* C3: init_dongle returns a handle only when the version decoded from the
\* probe it consulted is usable; otherwise it raises the unsupported-firmware
\* error and returns no handle.
C3_HandleOnlyIfUsable ==
    /\ ~IsNone(last.handle) =>
           /\ last.gated /\ IsNone(last.raised)
           /\ is_usable_version(Val(DONGLE_CONFIG_CACHE))
    /\ (last.gated /\ ~is_usable_version(Val(DONGLE_CONFIG_CACHE))) =>
           /\ last.raised = Some(NotImplementedError)
           /\ IsNone(last.handle)
    /\ (last.called /\ IsNone(last.handle)) => ~IsNone(last.raised)

C3_Witness ==
    /\ last.gated /\ last.raised = Some(NotImplementedError)
    /\ Len(last.sent) = 1 /\ IsNone(last.handle)

\* C5: with an explicit transport init_dongle returns that transport; without
\* one it returns the cached transport, opened only when the cache is empty;
\* after a successful open no later call opens again; a failed open raises a
\* translated error and leaves the cache empty.
C5_TransportCache ==
    /\ (~IsNone(last.dongle) /\ ~IsNone(last.handle)) =>
           /\ last.handle = last.dongle
           /\ DONGLE_CACHE = last.cacheBefore
    /\ (last.called /\ IsNone(last.dongle) /\ ~IsNone(last.handle)) =>
           /\ last.handle = DONGLE_CACHE
           /\ ~IsNone(last.cacheBefore) => last.handle = last.cacheBefore
    /\ last.opened <=> (last.called /\ IsNone(last.dongle) /\ IsNone(last.cacheBefore))
    /\ ~IsNone(last.cacheBefore) => DONGLE_CACHE = last.cacheBefore
    /\ stats.opens <= 1
    /\ (last.opened /\ IsNone(DONGLE_CACHE)) =>
           /\ ~IsNone(last.raised)
           /\ Val(last.raised).type = "LedgerError"
           /\ Len(last.sent) = 0 /\ ~last.gated

C5_Witness ==
    /\ last.called /\ IsNone(last.dongle) /\ ~IsNone(last.cacheBefore)
    /\ last.handle = last.cacheBefore /\ ~last.opened /\ stats.opens = 1

(***************************************************************************)
(* is_usable_version over configuration responses (SpecVersion)            *)
(***************************************************************************)
MaxVersionByte == 10

\* Version bytes tried: the small ones, and two with more digits.
VersionBytes == 0..MaxVersionByte \cup {99, 255}

ConfigResponses ==
    {<<flags, major, minor, patch>> :
        flags \in {1}, major \in VersionBytes, minor \in VersionBytes, patch \in VersionBytes}

InitVersion ==
    /\ cmds = LedgerCommands
    /\ SessionIdle
    /\ version \in {[confbytes |-> c, checked |-> FALSE, usable |-> FALSE] : c \in ConfigResponses}
    /\ FrameStart
    /\ ChunkIdle
    /\ TxIdle /\ SigIdle /\ AddrIdle /\ MwIdle

CheckVersion ==
    /\ ~version.checked
    /\ version' = [version EXCEPT !.checked = TRUE,
                                  !.usable = is_usable_version(version.confbytes)]
    /\ UNCHANGED <<cmds, sessionVars, frameVars, chunkVars, objectVars>>

NextVersion == CheckVersion

SpecVersion == InitVersion /\ [][NextVersion]_vars

\* C4: for the version (major, minor, patch) at bytes 1, 2, 3 of the response,
\* is_usable_version is true exactly when major = 9, or major = 1 and
\* minor >= 2 and patch >= 4.
C4_UsableVersions ==
    version.checked =>
        LET major == version.confbytes[2]
            minor == version.confbytes[3]
            patch == version.confbytes[4]
        IN  version.usable <=> (major = 9 \/ (major = 1 /\ minor >= 2 /\ patch >= 4))

C4_Witness ==
    /\ version.checked
    /\ version.confbytes = <<1, 1, 2, 4>>
    /\ version.usable

(***************************************************************************)
(* The frame codec called directly (SpecFrame)                             *)
(***************************************************************************)
MaxSmallData == 1

\* n bytes that differ from their neighbours: (seed + 1, seed + 2, ...) mod 256.
Bytes(n, seed) == [i \in 1..n |-> (i + seed) % 256]

\* Data arguments: empty, short, a full chunk, and one byte more than a chunk.
DataArgs ==
    {Bytes(n, 0) : n \in (0..MaxSmallData) \cup {DATA_CHUNK_SIZE, DATA_CHUNK_SIZE + 1}}

LcArgs == {None, Some(<<7>>)}
LeArgs == {None, Some(<<65>>)}

\* Names a caller passes: command specs, a name the class does not have, and
\* names of attributes of the class that are no command specs.
NameArgs == {"GET_CONFIGURATION", "GET_DEFAULT_ADDRESS_NO_CONFIRM",
             "SIGN_TX_FIRST_DATA", "NOT_A_COMMAND", "get", "__doc__"}

\* Names a caller passes together with data.
DataNameArgs == {"GET_CONFIGURATION", "SIGN_TX_FIRST_DATA", "NOT_A_COMMAND", "get"}

\* Whether a command's Lc is a caller's Lc argument, after get_with_data:
\* an Lc argument replaces it, set_data recomputes it for data up to 255 bytes
\* and leaves it as it was for longer data.
Lc_from_caller(before, data, Lc) ==
    IF ~IsNone(Lc) THEN TRUE
    ELSE IF Len(data) > 255 THEN before
    ELSE FALSE

CallGet(name) ==
    \E r \in {get(cmds, name)} :
        /\ cmds' = r.cmds
        /\ lcFromCaller' = lcFromCaller
        /\ lastOp' = [NoOp EXCEPT !.op = "get", !.name = name,
                          !.raised = r.raised, !.frame = r.frame,
                          !.cmd = IF IsCommand(name) THEN Some(r.cmds[name]) ELSE None,
                          !.fromCaller = IsCommand(name) /\ lcFromCaller[name]]
        /\ UNCHANGED <<sessionVars, version, chunkVars, objectVars>>

CallGetWithData(name, data, Lc, Le) ==
    \E r \in {get_with_data(cmds, name, data, Lc, Le)} :
    LET f == IF IsCommand(name) THEN Lc_from_caller(lcFromCaller[name], data, Lc) ELSE FALSE
    IN  /\ cmds' = r.cmds
        /\ lcFromCaller' = IF IsCommand(name) THEN [lcFromCaller EXCEPT ![name] = f]
                           ELSE lcFromCaller
        /\ lastOp' = [NoOp EXCEPT !.op = "get_with_data", !.name = name,
                          !.data = Some(data), !.Lc = Lc, !.Le = Le,
                          !.raised = r.raised, !.frame = r.frame,
                          !.cmd = IF IsCommand(name) THEN Some(r.cmds[name]) ELSE None,
                          !.fromCaller = f]
        /\ UNCHANGED <<sessionVars, version, chunkVars, objectVars>>

\* ISO7816Command(CLA, INS, P1, P2, Lc, Le, data).encode() on a new object.
NewCommand(Lc, Le, data) ==
    LET c == ISO7816Command(<<224>>, <<2>>, <<0>>, <<0>>, Lc, Le, data)
    IN  /\ lastOp' =
              IF ISO7816Command_raises(Lc, data)
              THEN [NoOp EXCEPT !.op = "new", !.data = data, !.Lc = Lc, !.Le = Le,
                        !.raised = Some(Exception("OverflowError", "int too big to convert", 0))]
              ELSE [NoOp EXCEPT !.op = "new", !.data = data, !.Lc = Lc, !.Le = Le,
                        !.frame = encode(c), !.cmd = Some(encode_fill(c)),
                        !.fromCaller = Lc_from_caller_init(Lc, data)]
        /\ UNCHANGED <<cmds, lcFromCaller, sessionVars, version, chunkVars, objectVars>>

InitFrame ==
    /\ cmds = LedgerCommands
    /\ SessionIdle
    /\ VersionIdle
    /\ FrameStart
    /\ ChunkIdle
    /\ TxIdle /\ SigIdle /\ AddrIdle /\ MwIdle

NextFrame ==
    \/ \E name \in NameArgs : CallGet(name)
    \/ \E name \in DataNameArgs, data \in DataArgs, Lc \in LcArgs, Le \in LeArgs :
           CallGetWithData(name, data, Lc, Le)
    \/ \E Lc \in LcArgs, Le \in LeArgs, data \in {None} \cup {Some(d) : d \in DataArgs} :
           NewCommand(Lc, Le, data)

SpecFrame == InitFrame /\ [][NextFrame]_vars

\* C10: an encoded frame is CLA, INS, P1, P2, then Lc and the data when data
\* is present or Lc alone when it is not, then Le when one is set; and when
\* data is present the Lc byte is the data's byte length unless the Lc in use
\* is one a caller passed explicitly.
C10_FrameLayout ==
    (/\ lastOp.op \in {"get", "get_with_data", "new"}
     /\ IsNone(lastOp.raised)
     /\ ~IsNone(lastOp.cmd)) =>
        LET c == Val(lastOp.cmd)
            f == lastOp.frame
            le == IF IsNone(c.Le) THEN <<>> ELSE Val(c.Le)
            n == IF IsNone(c.data) THEN 0 ELSE Len(Val(c.data))
        IN  /\ Len(f) = 4 + Len(Val(c.Lc)) + n + Len(le)
            /\ SubSeq(f, 1, 4) = c.CLA \o c.INS \o c.P1 \o c.P2
            /\ SubSeq(f, 5, 4 + Len(Val(c.Lc))) = Val(c.Lc)
            /\ ~IsNone(c.data) =>
                   SubSeq(f, 5 + Len(Val(c.Lc)), 4 + Len(Val(c.Lc)) + n) = Val(c.data)
            /\ SubSeq(f, Len(f) - Len(le) + 1, Len(f)) = le
            /\ (~IsNone(c.data) /\ ~lastOp.fromCaller) => Val(c.Lc) = <<n>>

\* The data segment of a frame: what lies between the Lc byte and the Le byte.
DataSegment(f, cmd) ==
    SubSeq(f, 6, Len(f) - (IF IsNone(cmd.Le) THEN 0 ELSE Len(Val(cmd.Le))))

\* C11: every frame get_with_data (set_data, then encode) produces has a data
\* segment of at most 255 bytes, and its Lc byte is that segment's length
\* whenever the caller passed no Lc of their own.
C11_DataSegmentAtMost255 ==
    (lastOp.op = "get_with_data" /\ IsNone(lastOp.raised)) =>
        LET seg == DataSegment(lastOp.frame, Val(lastOp.cmd))
        IN  /\ Len(seg) <= DATA_CHUNK_SIZE
            /\ IsNone(lastOp.Lc) => lastOp.frame[5] = Len(seg)

\* C12: get and get_with_data, called with a name that is not one of the
\* command specs, raise ValueError("Command not available") and produce no
\* frame; called with the name of a command spec they produce a frame.
C12_OnlyCommandSpecsGiveFrames ==
    lastOp.op \in {"get", "get_with_data"} =>
        IF IsCommand(lastOp.name)
        THEN IsNone(lastOp.raised) /\ Len(lastOp.frame) >= 5
        ELSE lastOp.raised = Some(ValueError) /\ lastOp.frame = <<>>

\* C22: the frame get(name) or get_with_data(name, data, Lc, Le) returns is
\* the frame the same call gives on the command specs as the class defines
\* them: the data, Lc or Le of an earlier call on the same name appear in no
\* later frame.
C22_FrameFromArgumentsOnly ==
    (/\ lastOp.op \in {"get", "get_with_data"}
     /\ IsNone(lastOp.raised)
     /\ IsCommand(lastOp.name)) =>
        lastOp.frame =
            IF lastOp.op = "get"
            THEN get(LedgerCommands, lastOp.name).frame
            ELSE get_with_data(LedgerCommands, lastOp.name, Val(lastOp.data),
                               lastOp.Lc, lastOp.Le).frame

(***************************************************************************)
(* dongle_send and dongle_send_data called directly (SpecSend)             *)
(***************************************************************************)

\* What the device answers to a frame: here its instruction byte and the
\* frame's length, then the status word 0x9000.
DeviceReply(frame) ==
    IF Len(frame) < 2 THEN <<144, 0>> ELSE <<frame[2], Len(frame) % 256, 144, 0>>

SendNameArgs == {"GET_CONFIGURATION", "SIGN_TX_FIRST_DATA", "NOT_A_COMMAND", "__doc__"}

SendDataArgs == {Bytes(n, 0) : n \in (1..MaxSmallData) \cup {DATA_CHUNK_SIZE + 1}}

CallDongleSend(dongle, name, fault) ==
    \E frame \in {get(cmds, name).frame} :
    \E ex \in {IF IsNone(fault) THEN Returned(DeviceReply(frame)) ELSE Raised(Val(fault))} :
    \E r \in {dongle_send(cmds, dongle, name, ex)} :
        /\ cmds' = r.cmds
        /\ lcFromCaller' = lcFromCaller
        /\ lastOp' = [NoOp EXCEPT !.op = "dongle_send", !.name = name,
                          !.dongle = dongle, !.ex = ex,
                          !.raised = r.raised, !.frame = frame,
                          !.value = r.value, !.sent = r.sent]
        /\ UNCHANGED <<sessionVars, version, chunkVars, objectVars>>

CallDongleSendData(dongle, name, data, Lc, Le, fault) ==
    \E frame \in {get_with_data(cmds, name, data, Lc, Le).frame} :
    \E ex \in {IF IsNone(fault) THEN Returned(DeviceReply(frame)) ELSE Raised(Val(fault))} :
    \E r \in {dongle_send_data(cmds, dongle, name, data, Lc, Le, ex)} :
        /\ cmds' = r.cmds
        /\ lcFromCaller' =
              IF IsCommand(name)
              THEN [lcFromCaller EXCEPT ![name] = Lc_from_caller(@, data, Lc)]
              ELSE lcFromCaller
        /\ lastOp' = [NoOp EXCEPT !.op = "dongle_send_data", !.name = name,
                          !.data = Some(data), !.Lc = Lc, !.Le = Le,
                          !.dongle = dongle, !.ex = ex,
                          !.raised = r.raised, !.frame = frame,
                          !.value = r.value, !.sent = r.sent]
        /\ UNCHANGED <<sessionVars, version, chunkVars, objectVars>>

InitSend ==
    /\ cmds = LedgerCommands
    /\ SessionIdle
    /\ VersionIdle
    /\ FrameStart
    /\ ChunkIdle
    /\ TxIdle /\ SigIdle /\ AddrIdle /\ MwIdle

FaultArgs == {None} \cup {Some(sw) : sw \in Faults}

NextSend ==
    \/ \E dongle \in Transports, name \in SendNameArgs, fault \in FaultArgs :
           CallDongleSend(dongle, name, fault)
    \/ \E dongle \in Transports, name \in SendNameArgs, data \in SendDataArgs,
          Lc \in LcArgs, fault \in FaultArgs :
           CallDongleSendData(dongle, name, data, Lc, None, fault)

SpecSend == InitSend /\ [][NextSend]_vars

IsSend == lastOp.op \in {"dongle_send", "dongle_send_data"}

\* C9 as claimed: dongle_send and dongle_send_data call exchange exactly once
\* per invocation, and a failed exchange reaches the caller as a translated
\* domain error, never as the transport's own error type.
C9_ExactlyOneExchange ==
    IsSend =>
        /\ Len(lastOp.sent) = 1
        /\ ~IsNone(lastOp.raised) => Val(lastOp.raised).type # "CommException"

\* C9 as amended: an invocation whose command name is a defined command spec
\* calls exchange exactly once, with the encoded frame on the given transport,
\* and returns the answer or raises the translation of the transport's error;
\* an invocation with a name the class does not have raises ValueError and
\* calls exchange not at all; no invocation calls exchange more than once.
C9_OneExchangePerKnownCommand ==
    IsSend =>
        /\ IsCommand(lastOp.name) =>
               /\ lastOp.sent = <<[dongle |-> lastOp.dongle, frame |-> lastOp.frame]>>
               /\ lastOp.ex.ok => (IsNone(lastOp.raised) /\ lastOp.value = lastOp.ex.value)
               /\ ~lastOp.ex.ok =>
                      /\ ~IsNone(lastOp.raised)
                      /\ Val(lastOp.raised).type = "LedgerError"
                      /\ Val(lastOp.raised).sw = lastOp.ex.err.sw
        /\ ~hasattr(lastOp.name) =>
               /\ lastOp.sent = <<>>
               /\ lastOp.raised = Some(ValueError)
        /\ Len(lastOp.sent) <= 1

C9_Witness ==
    /\ lastOp.op = "dongle_send_data"
    /\ IsCommand(lastOp.name)
    /\ ~lastOp.ex.ok
    /\ Len(lastOp.sent) = 1
    /\ Val(lastOp.raised).type = "LedgerError"

(***************************************************************************)
(* The chunked signing transfer (SpecChunk).  The loop that splits a       *)
(* payload and sends it (transactions.py, messages.py) is not among the    *)
(* sources; it is modelled from the design's description of the protocol   *)
(* and state machine, over dongle_send_data and the command table above.   *)
(***************************************************************************)
MaxChunks == 3

\* Payload lengths around the chunk boundaries, up to MaxChunks chunks.
PayloadLens ==
    {1} \cup {k * DATA_CHUNK_SIZE : k \in 1..MaxChunks}
        \cup {k * DATA_CHUNK_SIZE + 1 : k \in 1..(MaxChunks - 1)}

Payloads == {Bytes(n, 0) : n \in PayloadLens}

Kinds == {"TX", "MESSAGE"}

FirstCommand(kind) ==
    IF kind = "TX" THEN "SIGN_TX_FIRST_DATA" ELSE "SIGN_MESSAGE_FIRST_DATA"

SecondaryCommand(kind) ==
    IF kind = "TX" THEN "SIGN_TX_SECONDARY_DATA" ELSE "SIGN_MESSAGE_SECONDARY_DATA"

\* The payload in blocks of up to size bytes: how many, and the i-th.
NumChunks(payload, size) == (Len(payload) + size - 1) \div size

Chunk(payload, size, i) ==
    SubSeq(payload, (i - 1) * size + 1,
           IF i * size < Len(payload) THEN i * size ELSE Len(payload))

Running == {"NotStarted", "FirstBlockSent", "ContinuationSent"}

\* A caller submits a payload: a new operation starts from NotStarted.
Submit(kind, dongle, payload) ==
    /\ xfer.state \in {"Idle", "Complete", "Failed"}
    /\ xfer' = [NoTransfer EXCEPT !.state = "NotStarted", !.kind = kind,
                    !.dongle = dongle, !.payload = payload]
    /\ wire' = <<>>
    /\ UNCHANGED <<cmds, sessionVars, version, frameVars, objectVars>>

\* The next block goes out in one exchange: the first block with the FIRST
\* command, every later one with the SECONDARY command.
SendChunk(fault) ==
    /\ xfer.state \in Running
    /\ xfer.sent < NumChunks(xfer.payload, DATA_CHUNK_SIZE)
    /\ LET i == xfer.sent + 1
           name == IF i = 1 THEN FirstCommand(xfer.kind) ELSE SecondaryCommand(xfer.kind)
           chunk == Chunk(xfer.payload, DATA_CHUNK_SIZE, i)
           frame == get_with_data(cmds, name, chunk, None, None).frame
           ex == IF IsNone(fault) THEN Returned(<<i>> \o DeviceReply(frame))
                 ELSE Raised(Val(fault))
           r == dongle_send_data(cmds, xfer.dongle, name, chunk, None, None, ex)
       IN  /\ cmds' = r.cmds
           /\ lcFromCaller' = [lcFromCaller EXCEPT ![name] = Lc_from_caller(@, chunk, None)]
           /\ wire' = wire \o [j \in 1..Len(r.sent) |->
                                  [dongle |-> r.sent[j].dongle, frame |-> r.sent[j].frame,
                                   ok |-> ex.ok, reply |-> ex.value]]
           /\ xfer' = IF ~IsNone(r.raised)
                      THEN [xfer EXCEPT !.state = "Failed", !.error = r.raised]
                      ELSE [xfer EXCEPT !.state = IF i = 1 THEN "FirstBlockSent"
                                                 ELSE "ContinuationSent",
                                        !.sent = i,
                                        !.retval = Some(r.value)]
    /\ UNCHANGED <<sessionVars, version, lastOp, objectVars>>

\* No block is left: the operation returns the last exchange's response.
Finish ==
    /\ xfer.state \in {"FirstBlockSent", "ContinuationSent"}
    /\ xfer.sent = NumChunks(xfer.payload, DATA_CHUNK_SIZE)
    /\ xfer' = [xfer EXCEPT !.state = "Complete", !.result = xfer.retval]
    /\ UNCHANGED <<cmds, sessionVars, version, frameVars, wire, objectVars>>

InitChunk ==
    /\ cmds = LedgerCommands
    /\ SessionIdle
    /\ VersionIdle
    /\ FrameStart
    /\ ChunkIdle
    /\ TxIdle /\ SigIdle /\ AddrIdle /\ MwIdle

NextChunk ==
    \/ \E kind \in Kinds, dongle \in Transports, payload \in Payloads :
           Submit(kind, dongle, payload)
    \/ \E fault \in {None, Some(0)} : SendChunk(fault)
    \/ Finish

SpecChunk == InitChunk /\ [][NextChunk]_vars

\* The parts of a frame on the wire: P1, and the data after CLA INS P1 P2 Lc.
FrameP1(frame) == frame[3]
FrameData(frame) == SubSeq(frame, 6, Len(frame))

RECURSIVE ConcatData(_, _)
ConcatData(w, n) == IF n = 0 THEN <<>> ELSE ConcatData(w, n - 1) \o FrameData(w[n].frame)

Continuations(w) == {i \in 1..Len(w) : FrameP1(w[i].frame) = 128}

\* C6: for a payload longer than 255 bytes the number of continuation frames
\* is ceil((len - 255) / 255), every frame carries at most 255 payload bytes,
\* and the first block's bytes followed by the continuation blocks' bytes in
\* send order are the payload.
C6_ChunkCountAndReassembly ==
    /\ \A i \in 1..Len(wire) :
           /\ Len(FrameData(wire[i].frame)) <= 255
           /\ wire[i].frame[5] = Len(FrameData(wire[i].frame))
    /\ ConcatData(wire, Len(wire)) = SubSeq(xfer.payload, 1, Len(ConcatData(wire, Len(wire))))
    /\ (xfer.state = "Complete" /\ Len(xfer.payload) > 255) =>
           /\ Cardinality(Continuations(wire)) = (Len(xfer.payload) - 255 + 254) \div 255
           /\ ConcatData(wire, Len(wire)) = xfer.payload

C6_Witness ==
    /\ xfer.state = "Complete"
    /\ Len(xfer.payload) = 2 * DATA_CHUNK_SIZE + 1
    /\ Cardinality(Continuations(wire)) = 2

\* C7: the frames of a transfer go out in payload order on one transport:
\* the first frame, and only it, has P1 = 0x00, every later frame has
\* P1 = 0x80, and the result is the response of the final exchange.
C7_FirstThenContinuations ==
    /\ \A i \in 1..Len(wire) :
           /\ wire[i].dongle = xfer.dongle
           /\ FrameP1(wire[i].frame) = (IF i = 1 THEN 0 ELSE 128)
           /\ wire[i].frame[2] = (IF xfer.kind = "TX" THEN 4 ELSE 8)
           /\ FrameData(wire[i].frame) = Chunk(xfer.payload, DATA_CHUNK_SIZE, i)
    /\ xfer.state = "Complete" =>
           /\ Len(wire) = NumChunks(xfer.payload, DATA_CHUNK_SIZE)
           /\ xfer.result = Some(wire[Len(wire)].reply)
    /\ xfer.state # "Complete" => IsNone(xfer.result)

C7_Witness ==
    /\ xfer.state = "Complete"
    /\ Len(wire) = 3
    /\ FrameP1(wire[1].frame) = 0 /\ FrameP1(wire[3].frame) = 128
    /\ xfer.result = Some(wire[3].reply)

\* C8: a transport error in any exchange of a transfer moves the operation to
\* Failed: no further block of the payload is sent, and the operation yields
\* an error and no response bytes.
C8_FailureAborts ==
    /\ \A i \in 1..Len(wire) : ~wire[i].ok => i = Len(wire)
    /\ (Len(wire) > 0 /\ ~wire[Len(wire)].ok) <=> xfer.state = "Failed"
    /\ xfer.state = "Failed" =>
           /\ IsNone(xfer.result)
           /\ ~IsNone(xfer.error) /\ Val(xfer.error).type = "LedgerError"
           /\ ~ENABLED SendChunk(None) /\ ~ENABLED Finish

C8_Witness ==
    /\ xfer.state = "Failed"
    /\ Len(wire) = 2
    /\ Len(xfer.payload) > 2 * DATA_CHUNK_SIZE

(***************************************************************************)
(* objects.py: the transaction classes.                                    *)
(*                                                                         *)
(* A Python int n >= 0 is the sequence of its base-256 digits, the least   *)
(* significant first and the top digit not zero: 0 is <<>>, 256 is <<0, 1>>. *)
(* A Python value carries its type: an int, a bytes object or a list.      *)
(***************************************************************************)
RECURSIVE MulAdd(_, _, _)
\* a * m + c for an int a and small m >= 1, c >= 0.
MulAdd(a, m, c) ==
    IF a = <<>>
    THEN (IF c = 0 THEN <<>> ELSE <<c % 256>> \o MulAdd(<<>>, m, c \div 256))
    ELSE LET t == a[1] * m + c
         IN  <<t % 256>> \o MulAdd(Tail(a), m, t \div 256)

RECURSIVE FromDigits(_, _)
\* The int a literal denotes: its digits, the most significant first, in a base.
FromDigits(ds, base) ==
    IF ds = <<>> THEN <<>>
    ELSE MulAdd(FromDigits(SubSeq(ds, 1, Len(ds) - 1), base), base, ds[Len(ds)])

\* a > b on ints.
Gt(a, b) ==
    IF Len(a) # Len(b) THEN Len(a) > Len(b)
    ELSE \E i \in 1..Len(a) : a[i] > b[i] /\ \A j \in (i + 1)..Len(a) : a[j] = b[j]

\* MAX_LEGACY_CHAIN_ID = 0xFFFFFFFF + 1
MAX_LEGACY_CHAIN_ID == MulAdd(FromDigits(<<15, 15, 15, 15, 15, 15, 15, 15>>, 16), 1, 1)

\* MAX_CHAIN_ID = 0x38D7EA4C67FFF
MAX_CHAIN_ID == FromDigits(<<3, 8, 13, 7, 14, 10, 4, 12, 6, 7, 15, 15, 15>>, 16)

PyInt(n) == [t |-> "int", v |-> n]
PyBytes(b) == [t |-> "bytes", v |-> b]
PyList(items) == [t |-> "list", v |-> items]
PyNone == [t |-> "None", v |-> <<>>]

\* class TransactionType(IntEnum)
LEGACY == 0
EIP_2930 == 1
EIP_1559 == 2

\* constants.py
DEFAULT_CHAIN_ID == 1

\* The fields attribute of each class: (name, sedes) in order.
fields ==
    [Transaction |->
        << <<"nonce", "big_endian_int">>, <<"gas_price", "big_endian_int">>,
           <<"gas_limit", "big_endian_int">>, <<"destination", "address_allow_empty">>,
           <<"amount", "big_endian_int">>, <<"data", "binary">>,
           <<"chain_id", "big_endian_int">>, <<"dummy1", "big_endian_int">>,
           <<"dummy2", "big_endian_int">> >>,
     Type1Transaction |->
        << <<"chain_id", "big_endian_int">>, <<"nonce", "big_endian_int">>,
           <<"gas_price", "big_endian_int">>, <<"gas_limit", "big_endian_int">>,
           <<"destination", "address_allow_empty">>, <<"amount", "big_endian_int">>,
           <<"data", "binary">>, <<"access_list", "access_list_sede_type">> >>,
     Type2Transaction |->
        << <<"chain_id", "big_endian_int">>, <<"nonce", "big_endian_int">>,
           <<"max_priority_fee_per_gas", "big_endian_int">>,
           <<"max_fee_per_gas", "big_endian_int">>, <<"gas_limit", "big_endian_int">>,
           <<"destination", "address_allow_empty">>, <<"amount", "big_endian_int">>,
           <<"data", "binary">>, <<"access_list", "access_list_sede_type">> >>,
     SignedTransaction |->
        << <<"nonce", "big_endian_int">>, <<"gas_price", "big_endian_int">>,
           <<"gas_limit", "big_endian_int">>, <<"destination", "address_allow_empty">>,
           <<"amount", "big_endian_int">>, <<"data", "binary">>,
           <<"v", "big_endian_int">>, <<"r", "big_endian_int">>,
           <<"s", "big_endian_int">> >>,
     SignedType1Transaction |->
        << <<"chain_id", "big_endian_int">>, <<"nonce", "big_endian_int">>,
           <<"gas_price", "big_endian_int">>, <<"gas_limit", "big_endian_int">>,
           <<"destination", "address_allow_empty">>, <<"amount", "big_endian_int">>,
           <<"data", "binary">>, <<"access_list", "access_list_sede_type">>,
           <<"y_parity", "big_endian_int">>, <<"sender_r", "big_endian_int">>,
           <<"sender_s", "big_endian_int">> >>,
     SignedType2Transaction |->
        << <<"chain_id", "big_endian_int">>, <<"nonce", "big_endian_int">>,
           <<"max_priority_fee_per_gas", "big_endian_int">>,
           <<"max_fee_per_gas", "big_endian_int">>, <<"gas_limit", "big_endian_int">>,
           <<"destination", "address_allow_empty">>, <<"amount", "big_endian_int">>,
           <<"data", "binary">>, <<"access_list", "access_list_sede_type">>,
           <<"y_parity", "big_endian_int">>, <<"sender_r", "big_endian_int">>,
           <<"sender_s", "big_endian_int">> >>]

Classes == DOMAIN fields
UnsignedClasses == {"Transaction", "Type1Transaction", "Type2Transaction"}
SignedClasses == Classes \ UnsignedClasses

\* The transaction_type attribute of each class.
transaction_type ==
    [Transaction |-> LEGACY, Type1Transaction |-> EIP_2930, Type2Transaction |-> EIP_1559,
     SignedTransaction |-> LEGACY, SignedType1Transaction |-> EIP_2930,
     SignedType2Transaction |-> EIP_1559]

FieldNames(cls) == [i \in 1..Len(fields[cls]) |-> fields[cls][i][1]]

\* The position of a field in a class's field list.
FieldIndex(cls, name) == CHOOSE i \in 1..Len(fields[cls]) : fields[cls][i][1] = name

\* An instance: its class and the values of its fields, in the order of fields.
Object(cls, vals) == [cls |-> cls, vals |-> vals]

\* The chain id ceiling the constructor of a class enforces, if it enforces one.
chain_id_ceiling_legacy_for_all(cls) ==
    IF cls \in UnsignedClasses THEN Some(MAX_LEGACY_CHAIN_ID) ELSE None

chain_id_ceiling(cls) ==
    IF cls = "Transaction" THEN Some(MAX_LEGACY_CHAIN_ID)
    ELSE IF cls \in {"Type1Transaction", "Type2Transaction"} THEN Some(MAX_CHAIN_ID)
    ELSE None

ChainIdError(cls) ==
    IF cls = "Transaction"
    THEN Exception("ValueError", "chain_id must be a 32-bit integer for type 0 transactions.", 0)
    ELSE Exception("ValueError", "chain_id must not be above 999999999999999.", 0)

\* What Python raises when a call does not fit the constructor's signature.
ArityError == Exception("TypeError", "wrong number of arguments", 0)

\* access_list = access_list or []
or_empty_list(x) == IF x.t = "None" \/ x.v = <<>> THEN PyList(<<>>) ELSE x

\* The default values of the trailing parameters of each __init__.
defaults ==
    [Transaction |-> <<PyInt(<<DEFAULT_CHAIN_ID>>), PyInt(<<>>), PyInt(<<>>)>>,
     Type1Transaction |-> <<PyNone>>,
     Type2Transaction |-> <<PyNone>>,
     SignedTransaction |-> <<>>,
     SignedType1Transaction |-> <<>>,
     SignedType2Transaction |-> <<>>]

\* The positional arguments of a call, completed with the defaults.
with_defaults(cls, args) ==
    LET n == Len(fields[cls])
        d == defaults[cls]
    IN  args \o SubSeq(d, Len(d) - (n - Len(args)) + 1, Len(d))

\* cls(*args): [raised, obj].  The unsigned typed classes replace a falsy
\* access_list by [], the unsigned classes compare chain_id with their
\* ceiling and raise ValueError above it, and all of them hand the arguments
\* to Serializable.__init__, which stores them.
new(cls, args) ==
    IF Len(args) > Len(fields[cls]) \/ Len(args) < Len(fields[cls]) - Len(defaults[cls])
    THEN [raised |-> Some(ArityError), obj |-> None]
    ELSE LET a0 == with_defaults(cls, args)
             a == IF cls \in {"Type1Transaction", "Type2Transaction"}
                  THEN [a0 EXCEPT ![FieldIndex(cls, "access_list")] = or_empty_list(@)]
                  ELSE a0
             ceiling == chain_id_ceiling(cls)
         IN  IF ~IsNone(ceiling) /\ Gt(a[FieldIndex(cls, "chain_id")].v, Val(ceiling))
             THEN [raised |-> Some(ChainIdError(cls)), obj |-> None]
             ELSE [raised |-> None, obj |-> Some(Object(cls, a))]

(***************************************************************************)
(* The rlp library as objects.py uses it: the sedes of the fields, encode  *)
(* and decode.  A serialized value is a bytes object or a list of          *)
(* serialized values.                                                      *)
(***************************************************************************)
Reverse(q) == [i \in 1..Len(q) |-> q[Len(q) + 1 - i]]

\* n zero bytes.
Zeros(n) == [i \in 1..n |-> 0]

RECURSIVE lstrip_zeros(_)
lstrip_zeros(b) == IF b # <<>> /\ b[1] = 0 THEN lstrip_zeros(Tail(b)) ELSE b

\* int.to_bytes(length, "big") raises OverflowError when the int has more
\* than length significant bytes; below that it pads with zeros on the left.
int_to_bytes_overflows(n, length) == Len(n) > length
int_to_bytes(n, length) == Zeros(length - Len(n)) \o Reverse(n)

\* int.from_bytes(b, "big")
int_from_bytes(b) == Reverse(lstrip_zeros(b))

\* The int a small natural number is, and back.
Nat2Int(k) == MulAdd(<<>>, 1, k)
RECURSIVE Int2Nat(_)
Int2Nat(n) == IF n = <<>> THEN 0 ELSE n[1] + 256 * Int2Nat(Tail(n))

\* Whether sedes.serialize(x) raises SerializationError.
RECURSIVE serialize_raises(_, _)
serialize_raises(sedes, x) ==
    CASE sedes = "big_endian_int" -> x.t # "int"
      [] sedes = "BigEndianInt(32)" -> x.t # "int" \/ int_to_bytes_overflows(x.v, 32)
      [] sedes = "binary" -> x.t # "bytes"
      [] sedes = "address" -> x.t # "bytes" \/ Len(x.v) # 20
      [] sedes = "address_allow_empty" -> x.t # "bytes" \/ Len(x.v) \notin {0, 20}
      [] sedes = "CountableList(BigEndianInt(32))" ->
             x.t # "list" \/ \E i \in 1..Len(x.v) : serialize_raises("BigEndianInt(32)", x.v[i])
      [] sedes = "access_list_sede_type" ->
             \/ x.t # "list"
             \/ \E i \in 1..Len(x.v) :
                   \/ x.v[i].t # "list"
                   \/ Len(x.v[i].v) # 2
                   \/ serialize_raises("address", x.v[i].v[1])
                   \/ serialize_raises("CountableList(BigEndianInt(32))", x.v[i].v[2])

\* sedes.serialize(x)
RECURSIVE serialize(_, _)
serialize(sedes, x) ==
    CASE sedes = "big_endian_int" -> PyBytes(Reverse(x.v))
      [] sedes = "BigEndianInt(32)" -> PyBytes(int_to_bytes(x.v, 32))
      [] sedes \in {"binary", "address", "address_allow_empty"} -> x
      [] sedes = "CountableList(BigEndianInt(32))" ->
             PyList([i \in 1..Len(x.v) |-> serialize("BigEndianInt(32)", x.v[i])])
      [] sedes = "access_list_sede_type" ->
             PyList([i \in 1..Len(x.v) |->
                        PyList(<<serialize("address", x.v[i].v[1]),
                                 serialize("CountableList(BigEndianInt(32))", x.v[i].v[2])>>)])

\* The length prefix of a string (offset 0x80) or a list (offset 0xc0).
length_prefix(n, offset) ==
    IF n < 56 THEN <<offset + n>>
    ELSE LET lb == Reverse(Nat2Int(n)) IN <<offset + 55 + Len(lb)>> \o lb

RECURSIVE encode_raw(_), encode_items(_)
\* The RLP bytes of a serialized value.
encode_raw(item) ==
    IF item.t = "bytes"
    THEN (IF Len(item.v) = 1 /\ item.v[1] < 128 THEN item.v
          ELSE length_prefix(Len(item.v), 128) \o item.v)
    ELSE LET payload == encode_items(item.v)
         IN  length_prefix(Len(payload), 192) \o payload

encode_items(items) ==
    IF items = <<>> THEN <<>> ELSE encode_raw(Head(items)) \o encode_items(Tail(items))

\* Serializable.serialize(obj) under a class's field sedes.
serialize_object_raises(obj, cls) ==
    \/ Len(obj.vals) # Len(fields[cls])
    \/ \E i \in 1..Len(fields[cls]) : serialize_raises(fields[cls][i][2], obj.vals[i])

serialize_object(obj, cls) ==
    PyList([i \in 1..Len(fields[cls]) |-> serialize(fields[cls][i][2], obj.vals[i])])

\* rlp.encode(obj, cls), for an obj that serializes.
rlp_encode(obj, cls) == encode_raw(serialize_object(obj, cls))

\* What decoding one item gives: whether it is well formed, the item, and the
\* position after it.
Malformed == [ok |-> FALSE, item |-> PyBytes(<<>>), next |-> 0]
Decoded(item, next) == [ok |-> TRUE, item |-> item, next |-> next]

RECURSIVE decode_item(_, _), decode_items(_, _, _, _)
\* The item that starts at position i of b (strict: the shortest encoding only).
decode_item(b, i) ==
    IF i > Len(b) THEN Malformed
    ELSE LET p == b[i] IN
      IF p < 128 THEN Decoded(PyBytes(<<p>>), i + 1)
      ELSE IF p < 184 THEN
          LET n == p - 128 IN
          IF i + n > Len(b) THEN Malformed
          ELSE IF n = 1 /\ b[i + 1] < 128 THEN Malformed
          ELSE Decoded(PyBytes(SubSeq(b, i + 1, i + n)), i + n + 1)
      ELSE IF p < 192 THEN
          LET ll == p - 183 IN
          IF i + ll > Len(b) \/ b[i + 1] = 0 THEN Malformed
          ELSE LET n == Int2Nat(Reverse(SubSeq(b, i + 1, i + ll))) IN
               IF n < 56 \/ i + ll + n > Len(b) THEN Malformed
               ELSE Decoded(PyBytes(SubSeq(b, i + ll + 1, i + ll + n)), i + ll + n + 1)
      ELSE IF p < 248 THEN
          LET n == p - 192 IN
          IF i + n > Len(b) THEN Malformed
          ELSE decode_items(b, i + 1, i + n + 1, <<>>)
      ELSE
          LET ll == p - 247 IN
          IF i + ll > Len(b) \/ b[i + 1] = 0 THEN Malformed
          ELSE LET n == Int2Nat(Reverse(SubSeq(b, i + 1, i + ll))) IN
               IF n < 56 \/ i + ll + n > Len(b) THEN Malformed
               ELSE decode_items(b, i + ll + 1, i + ll + n + 1, <<>>)

\* The items of a list whose payload is b[i .. end - 1].
decode_items(b, i, end, acc) ==
    IF i = end THEN Decoded(PyList(acc), end)
    ELSE LET r == decode_item(b, i) IN
         IF ~r.ok \/ r.next > end THEN Malformed
         ELSE decode_items(b, r.next, end, Append(acc, r.item))

\* rlp.decode(b) without sedes: bytes and lists of bytes; DecodingError when
\* b is not exactly one well-formed item.
rlp_decode_raises(b) == LET r == decode_item(b, 1) IN ~r.ok \/ r.next # Len(b) + 1
rlp_decode(b) == decode_item(b, 1).item

DecodingError == Exception("DecodingError", "malformed RLP", 0)
SerializationError == Exception("SerializationError", "cannot serialize", 0)

(***************************************************************************)
(* eth_utils: hex strings.  A str is the sequence of its characters.       *)
(***************************************************************************)
HexChar == <<"0", "1", "2", "3", "4", "5", "6", "7", "8", "9", "a", "b", "c", "d", "e", "f">>

\* Two lower-case hex digits per byte, the high one first.
hex_digits(b) ==
    [i \in 1..(2 * Len(b)) |->
        IF i % 2 = 1 THEN HexChar[(b[(i + 1) \div 2] \div 16) + 1]
        ELSE HexChar[(b[i \div 2] % 16) + 1]]

\* encode_hex(b): "0x" and two lower-case hex digits per byte.
encode_hex(b) == <<"0", "x">> \o hex_digits(b)

HexValue(c) == CHOOSE d \in 0..15 : HexChar[d + 1] = c

\* The bytes a hex str of encode_hex's form denotes (decode_hex).
decode_hex(str) ==
    [i \in 1..((Len(str) - 2) \div 2) |->
        16 * HexValue(str[2 * i + 1]) + HexValue(str[2 * i + 2])]

(***************************************************************************)
(* utils.py: coerce_list_types.  Positional: value i is coerced to type i; *)
(* a None type leaves the value as decoded; a list of another length than  *)
(* the types fails.                                                        *)
(***************************************************************************)
MalformedTransaction == Exception("MalformedTransaction", "wrong arity or field types", 0)

coerce_list_types_raises(types, to_coerce) ==
    \/ to_coerce.t # "list"
    \/ Len(types) # Len(to_coerce.v)
    \/ \E i \in 1..Len(types) : types[i] # "None" /\ to_coerce.v[i].t # "bytes"

coerce_list_types(types, to_coerce) ==
    [i \in 1..Len(types) |->
        CASE types[i] = "None" -> to_coerce.v[i]
          [] types[i] = "int" -> PyInt(int_from_bytes(to_coerce.v[i].v))
          [] types[i] = "bytes" -> PyBytes(to_coerce.v[i].v)]

(***************************************************************************)
(* objects.py: from_rawtx and raw_transaction                              *)
(***************************************************************************)
\* The type list each from_rawtx passes to coerce_list_types.
coerce_types ==
    [Transaction |->
        <<"int", "int", "int", "bytes", "int", "bytes", "int", "int", "int">>,
     Type1Transaction |->
        <<"int", "int", "int", "int", "bytes", "int", "bytes", "None">>,
     Type2Transaction |->
        <<"int", "int", "int", "int", "int", "bytes", "int", "bytes", "None">>,
     SignedTransaction |->
        <<"int", "int", "int", "int", "bytes", "int", "bytes">>,
     SignedType1Transaction |->
        <<"int", "int", "int", "int", "bytes", "int", "bytes", "None", "int", "int", "int">>,
     SignedType2Transaction |->
        <<"int", "int", "int", "int", "int", "bytes", "int", "bytes", "None",
          "int", "int", "int">>]

IndexError == Exception("IndexError", "index out of range", 0)

NotThisType(cls) ==
    CASE transaction_type[cls] = LEGACY ->
             Exception("ValueError", "Transaction is not a legacy transaction", 0)
      [] transaction_type[cls] = EIP_2930 ->
             Exception("ValueError", "Transaction is not a type 1 transaction", 0)
      [] transaction_type[cls] = EIP_1559 ->
             Exception("ValueError", "Transaction is not a type 2 transaction", 0)

\* The test on rawtx[0] each from_rawtx starts with: whether it raises.
wrong_leading_byte_any_typed(cls, byte0) ==
    IF transaction_type[cls] = LEGACY THEN byte0 < 127
    ELSE byte0 \notin {EIP_2930, EIP_1559}

legacy_below_127_only_known(cls, byte0) ==
    IF transaction_type[cls] = LEGACY THEN byte0 \in {EIP_2930, EIP_1559}
    ELSE byte0 # transaction_type[cls]

wrong_leading_byte(cls, byte0) ==
    IF transaction_type[cls] = LEGACY THEN byte0 < 127
    ELSE byte0 # transaction_type[cls]

\* cls.from_rawtx(rawtx): [raised, obj].
from_rawtx(cls, rawtx) ==
    IF rawtx = <<>> THEN [raised |-> Some(IndexError), obj |-> None]
    ELSE IF wrong_leading_byte(cls, rawtx[1])
    THEN [raised |-> Some(NotThisType(cls)), obj |-> None]
    ELSE LET body == IF transaction_type[cls] = LEGACY THEN rawtx ELSE Tail(rawtx)
         IN  IF rlp_decode_raises(body)
             THEN [raised |-> Some(DecodingError), obj |-> None]
             ELSE IF coerce_list_types_raises(coerce_types[cls], rlp_decode(body))
             THEN [raised |-> Some(MalformedTransaction), obj |-> None]
             ELSE new(cls, coerce_list_types(coerce_types[cls], rlp_decode(body)))

\* The byte string raw_transaction puts before the RLP list.
type_prefix_all_typed_0x02(cls) ==
    IF cls = "SignedTransaction" THEN <<>> ELSE <<2>>

type_prefix(cls) ==
    CASE cls = "SignedTransaction" -> <<>>
      [] cls = "SignedType1Transaction" -> <<1>>
      [] cls = "SignedType2Transaction" -> <<2>>

\* obj.raw_transaction() of a signed class: [raised, hex].
raw_transaction(obj) ==
    IF serialize_object_raises(obj, obj.cls)
    THEN [raised |-> Some(SerializationError), hex |-> <<>>]
    ELSE [raised |-> None,
          hex |-> encode_hex(type_prefix(obj.cls) \o rlp_encode(obj, obj.cls))]

(***************************************************************************)
(* objects.py: to_rpc_dict.  A dict is the sequence of its (key, value)    *)
(* pairs in insertion order.                                               *)
(***************************************************************************)
RPC_TX_PROP_TRANSLATION ==
    [gas_price |-> "gasPrice", gas_limit |-> "gas", amount |-> "value",
     destination |-> "to", max_priority_fee_per_gas |-> "maxPriorityFeePerGas",
     max_fee_per_gas |-> "maxFeePerGas", access_list |-> "accessList",
     chain_id |-> "chainId"]

RPC_TX_PROPS ==
    <<"chainId", "from", "to", "gas", "gasPrice", "value", "data", "nonce",
      "maxFeePerGas", "maxPriorityFeePerGas", "chainId", "accessList">>

PyDict(items) == [t |-> "dict", v |-> items]

\* key = RPC_TX_PROP_TRANSLATION[name] if name in RPC_TX_PROP_TRANSLATION else name
rpc_key(name) ==
    IF name \in DOMAIN RPC_TX_PROP_TRANSLATION THEN RPC_TX_PROP_TRANSLATION[name] ELSE name

\* key in RPC_TX_PROPS
in_rpc_props(key) == \E i \in 1..Len(RPC_TX_PROPS) : RPC_TX_PROPS[i] = key

\* int.from_bytes(slot, "big") takes bytes; an int raises TypeError.
FromBytesTypeError == Exception("TypeError", "cannot convert 'int' object to bytes", 0)

\* Whether the loop over the access list raises: an item that has no item[0]
\* and item[1], or a slot that is not bytes.
slots_raise(slots) ==
    IF slots.t = "list" THEN \E j \in 1..Len(slots.v) : slots.v[j].t # "bytes"
    ELSE slots.v # <<>>

rpc_access_list_raises(orig) ==
    IF orig.t # "list" THEN orig.v # <<>>
    ELSE \E i \in 1..Len(orig.v) :
             \/ orig.v[i].t # "list"
             \/ Len(orig.v[i].v) < 2
             \/ slots_raise(orig.v[i].v[2])

\* [int.from_bytes(slot, "big") for slot in item[1]]
storage_keys_as_ints(slots) ==
    IF slots.t = "list"
    THEN [j \in 1..Len(slots.v) |-> PyInt(int_from_bytes(slots.v[j].v))]
    ELSE <<>>

\* The list of {"address": item[0], "storageKeys": [...]} objects.
rpc_access_list(orig) ==
    IF orig.t # "list" THEN PyList(<<>>)
    ELSE PyList([i \in 1..Len(orig.v) |->
                    PyDict(<< <<"address", orig.v[i].v[1]>>,
                              <<"storageKeys",
                                PyList(storage_keys_as_ints(orig.v[i].v[2]))>> >>)])

\* obj.to_rpc_dict(): [raised, d].
to_rpc_dict(obj) ==
    LET names == FieldNames(obj.cls)
        kept == SelectSeq([i \in 1..Len(names) |-> i],
                          LAMBDA i : in_rpc_props(rpc_key(names[i])))
    IN  IF \E i \in 1..Len(names) :
               rpc_key(names[i]) = "accessList" /\ rpc_access_list_raises(obj.vals[i])
        THEN [raised |-> Some(FromBytesTypeError), d |-> <<>>]
        ELSE [raised |-> None,
              d |-> [k \in 1..Len(kept) |->
                        <<rpc_key(names[kept[k]]),
                          IF rpc_key(names[kept[k]]) = "accessList"
                          THEN rpc_access_list(obj.vals[kept[k]])
                          ELSE obj.vals[kept[k]]>>]]

(***************************************************************************)
(* Transactions constructed, serialized and decoded (SpecTx)               *)
(***************************************************************************)
MaxStorageKeys == 1

\* The int a decimal literal denotes.
Dec(ds) == FromDigits(ds, 10)

\* Chain ids around the two ceilings: 1, 2^32 - 1, 2^32, 2^32 + 1,
\* 10^15 - 1 and 10^15.
ChainIdArgs ==
    {Dec(<<1>>), Dec(<<4, 2, 9, 4, 9, 6, 7, 2, 9, 5>>), Dec(<<4, 2, 9, 4, 9, 6, 7, 2, 9, 6>>),
     Dec(<<4, 2, 9, 4, 9, 6, 7, 2, 9, 7>>),
     Dec(<<9, 9, 9, 9, 9, 9, 9, 9, 9, 9, 9, 9, 9, 9, 9>>),
     Dec(<<1, 0, 0, 0, 0, 0, 0, 0, 0, 0, 0, 0, 0, 0, 0, 0>>)}

\* A 20-byte address, or b"" for a contract creation.
DestinationArgs == {Bytes(20, 16), <<>>}

\* Contract data: none, and three bytes of which the first is below 0x80.
TxDataArgs == {<<>>, <<5, 200, 0>>}

\* A 32-byte storage slot key given as an int, as BigEndianInt(32) takes it.
StorageKey(k) == PyInt(<<k>>)

\* The same key as the 32 bytes rlp decodes it from.
StorageKeyBytes(k) == PyBytes(Zeros(31) \o <<k>>)

\* Access lists: None, [], one address with 0..MaxStorageKeys slot keys, given
\* as ints or as 32-byte strings, and two addresses with one more key each.
AccessListArgs ==
    {PyNone, PyList(<<>>)} \cup
    {PyList(<<PyList(<<PyBytes(Bytes(20, 64)),
                       PyList([i \in 1..n |-> StorageKey(i)])>>)>>) :
        n \in 0..MaxStorageKeys} \cup
    {PyList(<<PyList(<<PyBytes(Bytes(20, 64)),
                       PyList([i \in 1..n |-> StorageKeyBytes(i)])>>)>>) :
        n \in 1..MaxStorageKeys} \cup
    {PyList(<<PyList(<<PyBytes(Bytes(20, 64)),
                       PyList([i \in 1..(MaxStorageKeys + 1) |-> StorageKeyBytes(10 - i)])>>),
              PyList(<<PyBytes(Bytes(20, 32)),
                       PyList([i \in 1..(MaxStorageKeys + 1) |-> StorageKeyBytes(i)])>>)>>)}

\* Signatures (v or y_parity, r, s): r and s of 32 significant bytes with
\* v = 27 and v = 37, and short ones with parity 0 and 1.
SignatureArgs ==
    {<<Dec(<<2, 7>>), Bytes(32, 7), Bytes(32, 100)>>,
     <<Dec(<<3, 7>>), Bytes(32, 200), Bytes(32, 100)>>,
     <<Dec(<<0>>), Dec(<<9>>), Dec(<<3, 0, 0>>)>>,
     <<Dec(<<1>>), Dec(<<9>>), Dec(<<3, 0, 0>>)>>}

\* The fields every transaction has, held fixed: nonce 0, a gas price or fee
\* of 10^9, gas limit 21000, amount 1.
Nonce == PyInt(Dec(<<0>>))
GasPrice == PyInt(Dec(<<1, 0, 0, 0, 0, 0, 0, 0, 0, 0>>))
GasLimit == PyInt(Dec(<<2, 1, 0, 0, 0>>))
Amount == PyInt(Dec(<<1>>))

\* The positional arguments of a constructor call, in the order of its
\* parameters; short leaves the parameters that have defaults out.
ArgsFor(cls, c, dest, data, al, sg, short) ==
    LET d == PyBytes(dest)
        b == PyBytes(data)
        sig3 == <<PyInt(sg[1]), PyInt(sg[2]), PyInt(sg[3])>>
        legacy == <<Nonce, GasPrice, GasLimit, d, Amount, b>>
        type1 == <<PyInt(c), Nonce, GasPrice, GasLimit, d, Amount, b>>
        type2 == <<PyInt(c), Nonce, GasPrice, GasPrice, GasLimit, d, Amount, b>>
    IN  CASE cls = "Transaction" ->
                 IF short THEN legacy ELSE legacy \o <<PyInt(c), PyInt(<<>>), PyInt(<<>>)>>
          [] cls = "Type1Transaction" -> IF short THEN type1 ELSE type1 \o <<al>>
          [] cls = "Type2Transaction" -> IF short THEN type2 ELSE type2 \o <<al>>
          [] cls = "SignedTransaction" -> legacy \o sig3
          [] cls = "SignedType1Transaction" -> type1 \o <<or_empty_list(al)>> \o sig3
          [] cls = "SignedType2Transaction" -> type2 \o <<or_empty_list(al)>> \o sig3

\* The calls a caller makes: a class and its constructor's arguments.
ConstructorCalls ==
    {[cls |-> cls, args |-> ArgsFor(cls, c, dest, data, al, sg, short)] :
        cls \in Classes, c \in ChainIdArgs, dest \in DestinationArgs, data \in TxDataArgs,
        al \in AccessListArgs, sg \in SignatureArgs, short \in BOOLEAN}

\* Raw bytes a caller hands to from_rawtx: every kind of leading byte before
\* an empty RLP list, the empty bytes, and well-formed unsigned transactions
\* in the formats the class docstrings give (rlp([...]), 0x01 || rlp([...]),
\* 0x02 || rlp([...])).
LeadingByteArgs == {0, 1, 2, 3, 126, 127, 128, 192, 193, 255}

UnsignedRaws ==
    {(IF cls = "Transaction" THEN <<>> ELSE <<transaction_type[cls]>>)
        \o rlp_encode(Val(new(cls, ArgsFor(cls, Dec(<<1>>), dest, <<>>, PyList(<<>>),
                                           <<<<>>, <<>>, <<>>>>, FALSE)).obj), cls) :
        cls \in UnsignedClasses, dest \in DestinationArgs}

RawArgs == {<<>>} \cup {<<b, 192>> : b \in LeadingByteArgs} \cup {<<192>>} \cup UnsignedRaws

\* cls(*args) for the call drawn.
Construct ==
    /\ tx.op = "call"
    /\ LET r == new(tx.cls, tx.args)
       IN  tx' = [tx EXCEPT !.op = "new", !.raised = r.raised, !.obj = r.obj]
    /\ UNCHANGED <<cmds, sessionVars, version, frameVars, chunkVars, sig, addr, mw>>

\* obj.raw_transaction() on the signed object just constructed.
RawTransaction ==
    /\ tx.op = "new"
    /\ tx.cls \in SignedClasses
    /\ ~IsNone(tx.obj)
    /\ LET r == raw_transaction(Val(tx.obj))
       IN  tx' = [tx EXCEPT !.op = "raw_transaction", !.raised = r.raised, !.hex = r.hex]
    /\ UNCHANGED <<cmds, sessionVars, version, frameVars, chunkVars, sig, addr, mw>>

\* cls.from_rawtx(decode_hex(obj.raw_transaction())), for any class cls.
FromRawTransaction(cls) ==
    /\ tx.op = "raw_transaction"
    /\ IsNone(tx.raised)
    /\ LET rawtx == decode_hex(tx.hex)
           r == from_rawtx(cls, rawtx)
       IN  tx' = [tx EXCEPT !.op = "from_rawtx", !.cls = cls, !.src = tx.obj,
                            !.rawtx = rawtx, !.raised = r.raised, !.obj = r.obj]
    /\ UNCHANGED <<cmds, sessionVars, version, frameVars, chunkVars, sig, addr, mw>>

\* cls.from_rawtx(rawtx) on the bytes drawn.
FromRawBytes(cls) ==
    /\ tx.op = "bytes"
    /\ LET r == from_rawtx(cls, tx.rawtx)
       IN  tx' = [tx EXCEPT !.op = "from_rawtx", !.cls = cls,
                            !.raised = r.raised, !.obj = r.obj]
    /\ UNCHANGED <<cmds, sessionVars, version, frameVars, chunkVars, sig, addr, mw>>

\* obj.to_rpc_dict() on the object just constructed or decoded.
ToRpcDict ==
    /\ tx.op \in {"new", "from_rawtx"}
    /\ ~IsNone(tx.obj)
    /\ LET r == to_rpc_dict(Val(tx.obj))
       IN  tx' = [tx EXCEPT !.op = "to_rpc_dict", !.raised = r.raised, !.rpc = r.d]
    /\ UNCHANGED <<cmds, sessionVars, version, frameVars, chunkVars, sig, addr, mw>>

InitTx ==
    /\ cmds = LedgerCommands
    /\ SessionIdle
    /\ VersionIdle
    /\ FrameStart
    /\ ChunkIdle
    /\ SigIdle /\ AddrIdle /\ MwIdle
    /\ \/ \E call \in ConstructorCalls :
              tx = [NoTx EXCEPT !.op = "call", !.cls = call.cls, !.args = call.args]
       \/ \E rawtx \in RawArgs : tx = [NoTx EXCEPT !.op = "bytes", !.rawtx = rawtx]

NextTx ==
    \/ Construct
    \/ RawTransaction
    \/ \E cls \in Classes : FromRawTransaction(cls)
    \/ \E cls \in Classes : FromRawBytes(cls)
    \/ ToRpcDict

SpecTx == InitTx /\ [][NextTx]_vars

IsRoundTrip ==
    /\ tx.op = "from_rawtx"
    /\ ~IsNone(tx.src)
    /\ tx.cls = Val(tx.src).cls

\* C14: for each signed class, from_rawtx on the bytes of raw_transaction()
\* gives an object of that class whose field values equal the original's,
\* position by position.
C14_SignedRoundTrip ==
    IsRoundTrip =>
        /\ IsNone(tx.raised)
        /\ Val(tx.obj) = Val(tx.src)

\* A from_rawtx call on bytes that have a leading byte.
IsDecode == tx.op = "from_rawtx" /\ tx.rawtx # <<>>

\* The call failed on its leading byte: ValueError("Transaction is not a ...").
RejectedOnLeadingByte ==
    /\ ~IsNone(tx.raised)
    /\ Val(tx.raised).type = "ValueError"
    /\ Val(tx.raised).kind \in {"Transaction is not a legacy transaction",
                                "Transaction is not a type 1 transaction",
                                "Transaction is not a type 2 transaction"}

\* C15 as claimed: a leading byte below 127 that is no known type code takes
\* the legacy decode path, and any other leading byte must be 0x01 or 0x02
\* or the decode fails.
C15_LegacyBelow127 ==
    IsDecode =>
        LET b == tx.rawtx[1]
            legacy == transaction_type[tx.cls] = 0
        IN  /\ (b < 127 /\ b \notin {1, 2} /\ legacy) => ~RejectedOnLeadingByte
            /\ (b >= 127) => RejectedOnLeadingByte

\* C15 as amended: a leading byte of 127 or more passes the legacy decoders
\* and only them; a leading byte below 127 passes a decoder only when it is
\* that decoder's type code, 0x01 or 0x02; every other decoder call fails on
\* the leading byte with ValueError.
C15_LegacyFrom127 ==
    IsDecode =>
        LET b == tx.rawtx[1]
            type == transaction_type[tx.cls]
        IN  RejectedOnLeadingByte <=>
                ~(\/ b >= 127 /\ type = 0
                  \/ b < 127 /\ b = type /\ type \in {1, 2})

C15_Witness ==
    /\ IsDecode
    /\ tx.rawtx[1] = 3
    /\ tx.cls = "Transaction"
    /\ tx.raised = Some(Exception("ValueError", "Transaction is not a legacy transaction", 0))

\* C16: a from_rawtx of a type-1 class fails on bytes whose leading byte is
\* not 0x01, one of a type-2 class on bytes whose leading byte is not 0x02,
\* and one of a legacy class on bytes that begin with a type code; the
\* failure is a ValueError and no object is made.
C16_OtherVariantRejected ==
    IsDecode =>
        LET b == tx.rawtx[1]
            foreign == CASE tx.cls \in {"Type1Transaction", "SignedType1Transaction"} -> b # 1
                         [] tx.cls \in {"Type2Transaction", "SignedType2Transaction"} -> b # 2
                         [] tx.cls \in {"Transaction", "SignedTransaction"} -> b \in {1, 2}
        IN  foreign => (RejectedOnLeadingByte /\ IsNone(tx.obj))

C16_Witness ==
    /\ IsDecode
    /\ tx.cls = "SignedType1Transaction"
    /\ ~IsNone(tx.src)
    /\ Val(tx.src).cls = "SignedType2Transaction"
    /\ tx.rawtx[1] = 2
    /\ RejectedOnLeadingByte
    /\ IsNone(tx.obj)

\* The unsigned class of a signed class.
UnsignedOf(cls) ==
    CASE cls = "SignedTransaction" -> "Transaction"
      [] cls = "SignedType1Transaction" -> "Type1Transaction"
      [] cls = "SignedType2Transaction" -> "Type2Transaction"

\* C17: raw_transaction() of a signed class is "0x" and the hex of the type
\* prefix of the unsigned form (none for legacy, where the bytes begin with
\* the RLP list header; 0x01 for access-list; 0x02 for fee-market) followed
\* by the RLP list of the fields in the unsigned class's order with the three
\* signature fields last: for the typed classes the unsigned field list, then
\* y_parity, sender_r, sender_s; for legacy the six transaction fields of the
\* unsigned list, then v, r, s.
C17_SignedFieldOrder ==
    (tx.op = "raw_transaction" /\ IsNone(tx.raised)) =>
        LET cls == tx.cls
            legacy == cls = "SignedTransaction"
            raw == decode_hex(tx.hex)
            body == IF legacy THEN raw ELSE Tail(raw)
            items == rlp_decode(body).v
            vals == Val(tx.obj).vals
            names == FieldNames(cls)
            unsigned == FieldNames(UnsignedOf(cls))
        IN  /\ SubSeq(tx.hex, 1, 2) = <<"0", "x">>
            /\ Len(tx.hex) = 2 + 2 * Len(raw)
            /\ IF legacy THEN raw[1] >= 192
               ELSE raw[1] = transaction_type[UnsignedOf(cls)] /\ raw[2] >= 192
            /\ ~rlp_decode_raises(body)
            /\ names = IF legacy THEN SubSeq(unsigned, 1, 6) \o <<"v", "r", "s">>
                       ELSE unsigned \o <<"y_parity", "sender_r", "sender_s">>
            /\ Len(items) = Len(names)
            /\ \A i \in 1..Len(names) :
                   CASE vals[i].t = "int" -> items[i] = PyBytes(Reverse(vals[i].v))
                     [] vals[i].t = "bytes" -> items[i] = vals[i]
                     [] vals[i].t = "list" ->
                            /\ items[i].t = "list"
                            /\ Len(items[i].v) = Len(vals[i].v)
            /\ \A k \in 0..2 : vals[Len(vals) - k] = tx.args[Len(tx.args) - k]

C17_Witness ==
    /\ tx.op = "raw_transaction"
    /\ IsNone(tx.raised)
    /\ tx.cls = "SignedType1Transaction"
    /\ SubSeq(tx.hex, 1, 4) = <<"0", "x", "0", "1">>
    /\ Val(tx.obj).vals[9] = PyInt(<<1>>)

\* A slot key as an integer: an int is itself, 32 bytes are the big-endian
\* number they spell.
SlotAsInt(slot) == IF slot.t = "int" THEN slot.v ELSE int_from_bytes(slot.v)

\* Whether every slot key of an object's access list is held as bytes.
SlotKeysAreBytes(obj) ==
    \A i \in 1..Len(obj.vals) :
        FieldNames(obj.cls)[i] = "access_list" =>
            \A e \in 1..Len(obj.vals[i].v) :
                \A j \in 1..Len(obj.vals[i].v[e].v[2].v) :
                    obj.vals[i].v[e].v[2].v[j].t = "bytes"

\* What C21 says of a returned dict d for the object obj.
IsRpcProjection(obj, d) ==
    LET names == FieldNames(obj.cls)
    IN  /\ \A i \in 1..Len(names) :
               (in_rpc_props(rpc_key(names[i])) /\ names[i] # "access_list") =>
                   \E k \in 1..Len(d) :
                       d[k][1] = rpc_key(names[i]) /\ d[k][2] = obj.vals[i]
        /\ \A k \in 1..Len(d) :
               /\ in_rpc_props(d[k][1])
               /\ d[k][1] \notin {"dummy1", "dummy2", "v", "r", "s",
                                  "y_parity", "sender_r", "sender_s"}
        /\ \A i \in 1..Len(names) :
               names[i] = "access_list" =>
                   \E k \in 1..Len(d) :
                       /\ d[k][1] = "accessList"
                       /\ d[k][2].t = "list"
                       /\ Len(d[k][2].v) = Len(obj.vals[i].v)
                       /\ \A e \in 1..Len(obj.vals[i].v) :
                              LET item == obj.vals[i].v[e]
                                  o == d[k][2].v[e]
                              IN  /\ o.t = "dict"
                                  /\ Len(o.v) = 2
                                  /\ o.v[1] = <<"address", item.v[1]>>
                                  /\ o.v[2][1] = "storageKeys"
                                  /\ Len(o.v[2][2].v) = Len(item.v[2].v)
                                  /\ \A j \in 1..Len(item.v[2].v) :
                                         /\ o.v[2][2].v[j].t = "int"
                                         /\ o.v[2][2].v[j].v = SlotAsInt(item.v[2].v[j])

\* C21: to_rpc_dict returns a dict that has every field with a network-facing
\* name under that name with the field's value unchanged, has no key outside
\* the network-facing names (no dummy or signature field), and has the access
\* list as a sequence, in the same order, of {address, storageKeys} objects
\* whose storageKeys are the entry's slot keys as integers in their order.
C21_RpcProjection ==
    tx.op = "to_rpc_dict" =>
        IsNone(tx.raised) /\ IsRpcProjection(Val(tx.obj), tx.rpc)

(***************************************************************************)
(* objects.py: Signed, SignedMessage, SignedTypedMessage (SpecSig).        *)
(* v, r and s are Optional ints: None when absent.                         *)
(***************************************************************************)
\* not x, for an Optional int: None and 0 are falsy.
not_none_only(x) == IsNone(x)
not(x) == IsNone(x) \/ Val(x) = <<>>

\* if not self.v or not self.r or not self.s
missing(v, r, s) == not(v) \/ not(r) \/ not(s)

MissingError == Exception("ValueError", "Missing v, r, or s", 0)
OverflowError == Exception("OverflowError", "int too big to convert", 0)

\* The signature property: [raised, hex].
signature_v_first(v, r, s) ==
    IF missing(v, r, s) THEN [raised |-> Some(MissingError), hex |-> <<>>]
    ELSE IF \/ int_to_bytes_overflows(Val(r), 32)
            \/ int_to_bytes_overflows(Val(s), 32)
            \/ int_to_bytes_overflows(Val(v), 1)
    THEN [raised |-> Some(OverflowError), hex |-> <<>>]
    ELSE [raised |-> None,
          hex |-> encode_hex(int_to_bytes(Val(v), 1) \o int_to_bytes(Val(r), 32)
                             \o int_to_bytes(Val(s), 32))]

signature(v, r, s) ==
    IF missing(v, r, s) THEN [raised |-> Some(MissingError), hex |-> <<>>]
    ELSE IF \/ int_to_bytes_overflows(Val(r), 32)
            \/ int_to_bytes_overflows(Val(s), 32)
            \/ int_to_bytes_overflows(Val(v), 1)
    THEN [raised |-> Some(OverflowError), hex |-> <<>>]
    ELSE [raised |-> None,
          hex |-> encode_hex(int_to_bytes(Val(r), 32) \o int_to_bytes(Val(s), 32)
                             \o int_to_bytes(Val(v), 1))]

\* v: absent, 0, 1, 27, 28, the largest byte, and one more than a byte holds.
VArgs == {None} \cup {Some(Dec(ds)) : ds \in {<<0>>, <<1>>, <<2, 7>>, <<2, 8>>,
                                                <<2, 5, 5>>, <<2, 5, 6>>}}

\* r and s: absent, 0, 1, 32 significant bytes (below 2^256) and 33 (2^256 and
\* above); the seed tells r from s.
RSArgs(seed) == {None, Some(<<>>), Some(<<1>>), Some(Bytes(32, seed)), Some(Bytes(33, seed))}

SignedClassNames == {"SignedMessage", "SignedTypedMessage"}

\* SignedMessage(message, v, r, s) / SignedTypedMessage(domain_hash,
\* message_hash, v, r, s): Signed.__init__ stores v, r and s.
NewSigned ==
    /\ sig.op = "call"
    /\ sig' = [sig EXCEPT !.op = "new"]
    /\ UNCHANGED <<cmds, sessionVars, version, frameVars, chunkVars, tx, addr, mw>>

\* signed.signature
GetSignature ==
    /\ sig.op = "new"
    /\ LET g == signature(sig.v, sig.r, sig.s)
       IN  sig' = [sig EXCEPT !.op = "signature", !.raised = g.raised, !.hex = g.hex]
    /\ UNCHANGED <<cmds, sessionVars, version, frameVars, chunkVars, tx, addr, mw>>

InitSig ==
    /\ cmds = LedgerCommands
    /\ SessionIdle
    /\ VersionIdle
    /\ FrameStart
    /\ ChunkIdle
    /\ TxIdle /\ AddrIdle /\ MwIdle
    /\ \E cls \in SignedClassNames, v \in VArgs, r \in RSArgs(7), s \in RSArgs(100) :
           sig = [NoSig EXCEPT !.op = "call", !.cls = cls, !.v = v, !.r = r, !.s = s]

NextSig ==
    \/ NewSigned
    \/ GetSignature

SpecSig == InitSig /\ [][NextSig]_vars

\* A component of the signature is zero or absent.
ZeroOrAbsent(x) == x = None \/ x = Some(<<>>)

\* C18 as claimed: the signature access fails with the missing-component
\* error whenever any of v, r, s is zero or absent, and succeeds whenever all
\* three are present and nonzero.
C18_FailsIffZeroOrAbsent ==
    sig.op = "signature" =>
        IF ZeroOrAbsent(sig.v) \/ ZeroOrAbsent(sig.r) \/ ZeroOrAbsent(sig.s)
        THEN sig.raised = Some(Exception("ValueError", "Missing v, r, or s", 0))
        ELSE IsNone(sig.raised)

\* C18 as amended: the access fails with the missing-component error exactly
\* when any of v, r, s is zero or absent; when all three are present and
\* nonzero it succeeds if v fits one byte and r and s fit 32 bytes each, and
\* fails with OverflowError if one of them does not.
C18_FailsIffZeroOrAbsentOrTooWide ==
    sig.op = "signature" =>
        IF ZeroOrAbsent(sig.v) \/ ZeroOrAbsent(sig.r) \/ ZeroOrAbsent(sig.s)
        THEN /\ sig.raised = Some(Exception("ValueError", "Missing v, r, or s", 0))
             /\ sig.hex = <<>>
        ELSE IF Len(Val(sig.v)) <= 1 /\ Len(Val(sig.r)) <= 32 /\ Len(Val(sig.s)) <= 32
        THEN IsNone(sig.raised) /\ sig.hex # <<>>
        ELSE ~IsNone(sig.raised) /\ Val(sig.raised).type = "OverflowError"

C18_Witness ==
    /\ sig.op = "signature"
    /\ sig.r = Some(<<>>)
    /\ sig.v = Some(<<27>>)
    /\ sig.s = Some(Bytes(32, 100))
    /\ sig.raised = Some(Exception("ValueError", "Missing v, r, or s", 0))

chr(c) ==
    CASE c \in 48..57 -> HexChar[c - 47]
      [] c \in 97..102 -> HexChar[c - 86]
      [] c \in 65..70 -> <<"A", "B", "C", "D", "E", "F">>[c - 64]
      [] c = 120 -> "x"
      [] c = 88 -> "X"
      [] OTHER -> "#" \o ToString(c)

\* bytes.decode("ascii") raises UnicodeDecodeError on a byte above 127.
ascii_decode_raises(b) == \E i \in 1..Len(b) : b[i] > 127
ascii_decode(b) == [i \in 1..Len(b) |-> chr(b[i])]

UnicodeDecodeError == Exception("UnicodeDecodeError", "ordinal not in range(128)", 0)

\* eth_utils.add_0x_prefix: a str that begins 0x or 0X is returned as it is.
is_0x_prefixed(str) == Len(str) >= 2 /\ str[1] = "0" /\ str[2] \in {"x", "X"}
add_0x_prefix(str) == IF is_0x_prefixed(str) THEN str ELSE <<"0", "x">> \o str

\* b[i:j] for 0 <= i <= j: what b has of the positions i .. j - 1, counted from 0.
Slice(b, i, j) == SubSeq(b, i + 1, IF j < Len(b) THEN j ELSE Len(b))

\* decode_response_address(response): [raised, taken, value]; taken is
\* address_encoded.
decode_response_address_length_at_0(response) ==
    IF response = <<>>
    THEN [raised |-> Some(IndexError), taken |-> <<>>, value |-> <<>>]
    ELSE LET address_encoded == Slice(response, 2, 2 + response[1])
         IN  IF ascii_decode_raises(address_encoded)
             THEN [raised |-> Some(UnicodeDecodeError), taken |-> address_encoded,
                   value |-> <<>>]
             ELSE [raised |-> None, taken |-> address_encoded,
                   value |-> add_0x_prefix(ascii_decode(address_encoded))]

decode_response_address(response) ==
    IF response = <<>>
    THEN [raised |-> Some(IndexError), taken |-> <<>>, value |-> <<>>]
    ELSE LET offset == 1 + response[1]
         IN  IF offset >= Len(response)
             THEN [raised |-> Some(IndexError), taken |-> <<>>, value |-> <<>>]
             ELSE LET address_encoded ==
                          Slice(response, offset + 1, offset + 1 + response[offset + 1])
                  IN  IF ascii_decode_raises(address_encoded)
                      THEN [raised |-> Some(UnicodeDecodeError), taken |-> address_encoded,
                            value |-> <<>>]
                      ELSE [raised |-> None, taken |-> address_encoded,
                            value |-> add_0x_prefix(ascii_decode(address_encoded))]

MaxKeyLen == 2

\* The length of the segment before the address: short ones, and the 65 bytes
\* of an uncompressed public key.
KeyLens == (0..MaxKeyLen) \cup {65}

\* The address lengths a response declares.
AddressLens == {0, 1, 2, 40}

\* n characters of an address as ASCII codes: lower-case hex digits, mixed
\* case, text that begins "0x", and text with a byte that is not ASCII.
AddressText(n, kind) ==
    [i \in 1..n |->
        CASE kind = "lower" -> <<97, 98, 48, 49, 102, 57>>[(i % 6) + 1]
          [] kind = "mixed" -> <<65, 98, 70, 100, 67, 48>>[(i % 6) + 1]
          [] kind = "prefixed" -> IF i = 1 THEN 48 ELSE IF i = 2 THEN 120 ELSE 97
          [] kind = "not ascii" -> IF i = 1 THEN 200 ELSE 97]

TextKinds == {"lower", "mixed", "prefixed", "not ascii"}

\* A response: the segment's length, the segment, the address length, the
\* address text (cut bytes short of what is declared), and what follows.
Response(m, n, kind, cut, rest) ==
    <<m>> \o [i \in 1..m |-> 4] \o <<n>>
        \o SubSeq(AddressText(n, kind), 1, IF n > cut THEN n - cut ELSE 0) \o rest

Responses ==
    {<<>>, <<1>>} \cup
    {Response(m, n, kind, cut, rest) :
        m \in KeyLens, n \in AddressLens, kind \in TextKinds, cut \in {0, 1},
        rest \in {<<>>, <<32, 7>>}}

DecodeAddress ==
    /\ addr.op = "response"
    /\ LET d == decode_response_address(addr.response)
       IN  addr' = [addr EXCEPT !.op = "decoded", !.raised = d.raised,
                                !.taken = d.taken, !.value = d.value]
    /\ UNCHANGED <<cmds, sessionVars, version, frameVars, chunkVars, tx, sig, mw>>

InitAddress ==
    /\ cmds = LedgerCommands
    /\ SessionIdle
    /\ VersionIdle
    /\ FrameStart
    /\ ChunkIdle
    /\ TxIdle /\ SigIdle /\ MwIdle
    /\ \E response \in Responses : addr = [NoAddr EXCEPT !.op = "response", !.response = response]

NextAddress == DecodeAddress

SpecAddress == InitAddress /\ [][NextAddress]_vars

\* C20 as claimed: the decoder reads the address length n at byte 0 and takes
\* the n bytes that begin after one skipped byte (bytes 2 .. n + 1, counted
\* from 0) as the address text.
C20_LengthAtByte0 ==
    (addr.op = "decoded" /\ IsNone(addr.raised)) =>
        LET r == addr.response
            n == r[1]
        IN  /\ Len(addr.taken) = n
            /\ addr.taken = SubSeq(r, 3, n + 2)

\* C20 as amended: byte 0 is the length m of a first segment, which the
\* decoder skips; the address length n is the byte after that segment, and
\* the address text is the n bytes after the length byte (fewer if the
\* response ends before); the result is that text as ASCII, unchanged, with
\* "0x" put in front unless it begins 0x or 0X already.  A response too short
\* to hold the length byte raises IndexError, a text byte above 127
\* UnicodeDecodeError.
C20_LengthAfterFirstSegment ==
    addr.op = "decoded" =>
        LET r == addr.response
        IN  IF r = <<>> \/ Len(r) < r[1] + 2
            THEN ~IsNone(addr.raised) /\ Val(addr.raised).type = "IndexError"
            ELSE LET m == r[1]
                     n == r[m + 2]
                     have == IF Len(r) - (m + 2) < n THEN Len(r) - (m + 2) ELSE n
                     text == [i \in 1..have |-> r[m + 2 + i]]
                 IN  IF \E i \in 1..have : text[i] > 127
                     THEN ~IsNone(addr.raised)
                          /\ Val(addr.raised).type = "UnicodeDecodeError"
                     ELSE /\ IsNone(addr.raised)
                          /\ addr.taken = text
                          /\ LET str == [i \in 1..have |-> chr(text[i])]
                             IN  addr.value =
                                     IF have >= 2 /\ text[1] = 48 /\ text[2] \in {120, 88}
                                     THEN str ELSE <<"0", "x">> \o str

C20_Witness ==
    /\ addr.op = "decoded"
    /\ IsNone(addr.raised)
    /\ Len(addr.response) = 1 + 65 + 1 + 40
    /\ addr.response[1] = 65
    /\ addr.response[67] = 40
    /\ Len(addr.value) = 42
    /\ SubSeq(addr.value, 1, 5) = <<"0", "x", "b", "F", "d">>

(***************************************************************************)
(* web3.py: LedgerSignerMiddleware (SpecMiddleware).  A transaction object *)
(* is a record of its keys, each None when the key is absent; the calls    *)
(* the handler makes outside web3.py (find_account, the node's nonce and   *)
(* chain id, create_transaction, make_request) answer whatever they may.   *)
(***************************************************************************)
AccountNotFoundError == Exception("AccountNotFoundError", "Account not found", 0)
FromNotProvided == Exception("ValueError", "from field not provided", 0)
GasNotProvided == Exception("ValueError", "gas field not provided", 0)
FeeNotProvided == Exception("ValueError", "gasPrice or maxFeePerGas field not provided", 0)
NoChainId == Exception("ValueError", "No chain ID found?", 0)
DeviceError == Exception("LedgerError", "raised by the callee", 0)

\* int(str, 16): the number a hex str denotes, with or without "0x".
RECURSIVE int16_digits(_, _)
int16_digits(str, acc) ==
    IF str = <<>> THEN acc ELSE int16_digits(Tail(str), 16 * acc + HexValue(str[1]))
int16(str) == int16_digits(IF is_0x_prefixed(str) THEN SubSeq(str, 3, Len(str)) ELSE str, 0)

\* The three checks at the head of the loop body: None, or what is raised.
missing_field_gas_only(tx_obj) ==
    IF not(tx_obj.gas) THEN Some(GasNotProvided) ELSE None

missing_field(tx_obj) ==
    IF not(tx_obj.from) THEN Some(FromNotProvided)
    ELSE IF not(tx_obj.gas) THEN Some(GasNotProvided)
    ELSE IF not(tx_obj.gasPrice) /\ not(tx_obj.maxFeePerGas) THEN Some(FeeNotProvided)
    ELSE None

\* The keyword arguments of the create_transaction call.
create_transaction_args(tx_obj, nonce, chain_id, sender_account) ==
    [chain_id |-> chain_id,
     destination |-> tx_obj.to,
     amount |-> int16(IF IsNone(tx_obj.value) THEN <<"0", "x", "0", "0">> ELSE Val(tx_obj.value)),
     gas |-> int16(Val(tx_obj.gas)),
     gas_price |-> IF ~not(tx_obj.gasPrice) THEN Some(int16(Val(tx_obj.gasPrice))) ELSE None,
     max_fee_per_gas |->
         IF ~not(tx_obj.maxFeePerGas) THEN Some(int16(Val(tx_obj.maxFeePerGas))) ELSE None,
     max_priority_fee_per_gas |->
         IF ~not(tx_obj.maxPriorityFeePerGas)
         THEN Some(int16(Val(tx_obj.maxPriorityFeePerGas))) ELSE None,
     nonce |-> nonce,
     sender_path |-> sender_account.path]

\* signed_tx.rawTransaction of what create_transaction returns for these
\* arguments: the raw transaction that signs exactly them.
rawTransaction(args) == [signed |-> args]

\* What the handler has called or decided, in order.
Event(ev, i) == [ev |-> ev, i |-> i, method |-> "", params |-> <<>>]
RequestEvent(method, params) ==
    [ev |-> "make_request", i |-> 0, method |-> method, params |-> params]

\* The JSON-RPC methods the middleware answers from the device.
Intercepted == {"eth_sendTransaction", "eth_accounts", "eth_sign", "eth_signTypedData"}

MaxTxs == 2

Hex(str) == Some(<<"0", "x">> \o str)
SenderAddress == Hex(<<"f", "3", "9", "f">>)

\* A complete legacy transaction object with a nonce; the others differ from
\* it in the keys named.  None has an "accessList" or a "data" key, and a
\* nonce is an int.
LegacyTxObj ==
    [from |-> SenderAddress, to |-> Hex(<<"7", "0">>), gas |-> Hex(<<"5", "2", "0", "8">>),
     gasPrice |-> Hex(<<"3", "b">>), maxFeePerGas |-> None, maxPriorityFeePerGas |-> None,
     value |-> Hex(<<"0", "1">>), nonce |-> Some(7)]

FeeMarketTxObj ==
    [LegacyTxObj EXCEPT !.gasPrice = None, !.maxFeePerGas = Hex(<<"7", "7">>),
                        !.maxPriorityFeePerGas = Hex(<<"0", "2">>), !.nonce = None,
                        !.value = None]

TxObjs ==
    {LegacyTxObj, FeeMarketTxObj,
     [LegacyTxObj EXCEPT !.maxFeePerGas = Hex(<<"7", "7">>)],
     [LegacyTxObj EXCEPT !.from = None],
     [FeeMarketTxObj EXCEPT !.from = Some(<<>>)],
     [LegacyTxObj EXCEPT !.gas = None],
     [FeeMarketTxObj EXCEPT !.gas = None, !.from = None],
     [LegacyTxObj EXCEPT !.gasPrice = None],
     [FeeMarketTxObj EXCEPT !.maxFeePerGas = None]}

RECURSIVE SeqsUpTo(_, _)
SeqsUpTo(S, n) ==
    IF n = 0 THEN {<<>>}
    ELSE LET shorter == SeqsUpTo(S, n - 1)
         IN  shorter \cup {Append(q, x) : q \in shorter, x \in S}

MethodArgs == {"eth_sendTransaction", "eth_accounts", "eth_chainId"}

\* find_account's answers: an account, None, or an error of the device.
Accounts == {Some([path |-> "44'/60'/0'/0/0"]), None}

\* middleware(method, params): the branch on the method.
Middleware ==
    /\ mw.pc = "call"
    /\ mw' = IF mw.method = "eth_sendTransaction"
             THEN [mw EXCEPT !.pc = IF mw.params = <<>> THEN "send" ELSE "check", !.i = 1]
             ELSE IF mw.method \in Intercepted
             THEN [mw EXCEPT !.pc = "done", !.log = Append(@, Event("device", 0))]
             ELSE [mw EXCEPT !.pc = "done",
                             !.log = Append(@, RequestEvent(mw.method, mw.params))]
    /\ UNCHANGED <<cmds, sessionVars, version, frameVars, chunkVars, tx, sig, addr>>

\* The loop body up to the checks of "from", "gas" and the two fee keys.
CheckFields ==
    /\ mw.pc = "check"
    /\ \E m \in {missing_field(mw.params[mw.i])} :
           mw' = IF IsNone(m)
                 THEN [mw EXCEPT !.pc = "find", !.log = Append(@, Event("checked", mw.i))]
                 ELSE [mw EXCEPT !.pc = "raised", !.raised = m,
                                 !.log = Append(@, Event("rejected", mw.i))]
    /\ UNCHANGED <<cmds, sessionVars, version, frameVars, chunkVars, tx, sig, addr>>

\* sender_account = find_account(sender_address, dongle=self._dongle)
FindAccount(found, fault) ==
    /\ mw.pc = "find"
    /\ mw' = IF fault
             THEN [mw EXCEPT !.pc = "raised", !.raised = Some(DeviceError),
                             !.log = Append(@, Event("find_account", mw.i))]
             ELSE IF IsNone(found)
             THEN [mw EXCEPT !.pc = "raised", !.raised = Some(AccountNotFoundError),
                             !.log = Append(Append(@, Event("find_account", mw.i)),
                                            Event("not found", mw.i))]
             ELSE [mw EXCEPT !.pc = "chain", !.account = found,
                             !.log = Append(@, Event("find_account", mw.i))]
    /\ UNCHANGED <<cmds, sessionVars, version, frameVars, chunkVars, tx, sig, addr>>

\* The nonce, from the node when the object has none, and the chain id.
ReadChain(count, chain_id) ==
    /\ mw.pc = "chain"
    /\ LET nonce == mw.params[mw.i].nonce
           asked == IF IsNone(nonce)
                    THEN Append(mw.log, Event("get_transaction_count", mw.i))
                    ELSE mw.log
       IN  mw' = IF chain_id = 0
                 THEN [mw EXCEPT !.pc = "raised", !.raised = Some(NoChainId),
                                 !.log = Append(asked, Event("chain_id", mw.i))]
                 ELSE [mw EXCEPT !.pc = "sign", !.chain_id = chain_id,
                                 !.nonce = IF IsNone(nonce) THEN Some(count) ELSE nonce,
                                 !.log = Append(asked, Event("chain_id", mw.i))]
    /\ UNCHANGED <<cmds, sessionVars, version, frameVars, chunkVars, tx, sig, addr>>

\* signed_tx = create_transaction(...); new_params.append(signed_tx.rawTransaction)
CreateTransaction(fault) ==
    /\ mw.pc = "sign"
    /\ LET args == create_transaction_args(mw.params[mw.i], Val(mw.nonce), mw.chain_id,
                                           Val(mw.account))
       IN  mw' = IF fault
                 THEN [mw EXCEPT !.pc = "raised", !.raised = Some(DeviceError),
                                 !.log = Append(@, Event("create_transaction", mw.i))]
                 ELSE [mw EXCEPT !.pc = IF mw.i = Len(mw.params) THEN "send" ELSE "check",
                                 !.i = @ + 1,
                                 !.account = None, !.nonce = None,
                                 !.new_params = Append(@, rawTransaction(args)),
                                 !.log = Append(Append(@, Event("create_transaction", mw.i)),
                                                Event("signed", mw.i))]
    /\ UNCHANGED <<cmds, sessionVars, version, frameVars, chunkVars, tx, sig, addr>>

\* return make_request("eth_sendRawTransaction", new_params)
MakeRequest ==
    /\ mw.pc = "send"
    /\ mw' = [mw EXCEPT !.pc = "done",
                        !.log = Append(@, RequestEvent("eth_sendRawTransaction",
                                                       mw.new_params))]
    /\ UNCHANGED <<cmds, sessionVars, version, frameVars, chunkVars, tx, sig, addr>>

InitMiddleware ==
    /\ cmds = LedgerCommands
    /\ SessionIdle
    /\ VersionIdle
    /\ FrameStart
    /\ ChunkIdle
    /\ TxIdle /\ SigIdle /\ AddrIdle
    /\ \E method \in MethodArgs, params \in SeqsUpTo(TxObjs, MaxTxs) :
           mw = [NoRequest EXCEPT !.pc = "call", !.method = method, !.params = params]

NextMiddleware ==
    \/ Middleware
    \/ CheckFields
    \/ \E found \in Accounts, fault \in BOOLEAN : FindAccount(found, fault)
    \/ \E count \in {0, 3}, chain_id \in {0, 1} : ReadChain(count, chain_id)
    \/ \E fault \in BOOLEAN : CreateTransaction(fault)
    \/ MakeRequest

SpecMiddleware == InitMiddleware /\ [][NextMiddleware]_vars

\* Whether a transaction object lacks "from", "gas", or both fee keys.
Lacks(tx_obj) ==
    \/ IsNone(tx_obj.from)
    \/ IsNone(tx_obj.gas)
    \/ (IsNone(tx_obj.gasPrice) /\ IsNone(tx_obj.maxFeePerGas))

\* The positions of the make_request calls in the log.
RequestsMade == {k \in 1..Len(mw.log) : mw.log[k].ev = "make_request"}

\* Whether the raw transaction raw signs the transaction object tx_obj.
Signs(raw, tx_obj) ==
    /\ raw.signed.gas = int16(Val(tx_obj.gas))
    /\ raw.signed.gas_price =
           IF IsNone(tx_obj.gasPrice) THEN None ELSE Some(int16(Val(tx_obj.gasPrice)))
    /\ raw.signed.max_fee_per_gas =
           IF IsNone(tx_obj.maxFeePerGas) THEN None
           ELSE Some(int16(Val(tx_obj.maxFeePerGas)))
    /\ ~IsNone(tx_obj.nonce) => raw.signed.nonce = Val(tx_obj.nonce)

\* C23: handling eth_sendTransaction, make_request is called at most once,
\* with eth_sendRawTransaction and one signed raw transaction per transaction
\* object in the same order, and only after every object has passed its
\* checks and has been signed; when an object lacks "from", "gas" or both
\* "gasPrice" and "maxFeePerGas", or its account is not found, the handler
\* ends raising and never calls make_request; and an object that fails the
\* checks is never looked up on the device.
C23_OneRawRequestAfterSigning ==
    mw.method = "eth_sendTransaction" =>
        LET log == mw.log
            n == Len(mw.params)
        IN  /\ Cardinality(RequestsMade) <= 1
            /\ \A k \in RequestsMade :
                   /\ log[k].method = "eth_sendRawTransaction"
                   /\ Len(log[k].params) = n
                   /\ \A i \in 1..n :
                          /\ Signs(log[k].params[i], mw.params[i])
                          /\ \E c \in 1..(k - 1), g \in 1..(k - 1) :
                                 /\ c < g
                                 /\ log[c] = Event("checked", i)
                                 /\ log[g] = Event("signed", i)
            /\ (\E i \in 1..n : Lacks(mw.params[i])) =>
                   /\ RequestsMade = {}
                   /\ mw.pc # "done"
                   /\ mw.pc = "raised" => ~IsNone(mw.raised)
            /\ (\E k \in 1..Len(log) : log[k].ev = "not found") =>
                   /\ RequestsMade = {}
                   /\ mw.pc = "raised"
                   /\ mw.raised = Some(AccountNotFoundError)
            /\ \A i \in 1..n :
                   Lacks(mw.params[i]) =>
                       \A k \in 1..Len(log) :
                           log[k].i = i => log[k].ev \notin {"find_account", "create_transaction"}

C23_Witness ==
    /\ mw.method = "eth_sendTransaction"
    /\ mw.pc = "done"
    /\ Len(mw.params) = 2
    /\ mw.params[1] = FeeMarketTxObj
    /\ mw.params[2] = LegacyTxObj
    /\ \E k \in RequestsMade :
           /\ k = Len(mw.log)
           /\ mw.log[k].method = "eth_sendRawTransaction"
           /\ mw.log[k].params[1].signed.max_fee_per_gas = Some(119)
           /\ mw.log[k].params[1].signed.gas_price = None
           /\ mw.log[k].params[2].signed.gas_price = Some(59)
           /\ mw.log[k].params[2].signed.nonce = 7

====
